---------------------------- MODULE Spec2Model ----------------------------
(***************************************************************************)
(* Lead scoring and classification engine of smm_lead_gen                  *)
(* (src/src/analyzer.py, configured by src/src/config.py).                 *)
(*                                                                         *)
(* Python values are modelled with their type: a value is a record whose   *)
(* field t names the Python type ("str", "int", "list", "none" for None,   *)
(* "nan" for the NaN pandas stores for a key a profile lacks, "absent" for *)
(* a key a post dict lacks).  A str carries its characters, a sequence of  *)
(* one-character strings, so that lower(), substring tests and the         *)
(* compiled regular expressions are computed character by character.       *)
(*                                                                         *)
(* Instants are integers counting ticks, TicksPerDay ticks to the day;     *)
(* timedelta.days is floor division by TicksPerDay.  numpy's mean and      *)
(* variance are kept exact as fractions <<numerator, denominator>>.        *)
(***************************************************************************)
EXTENDS Integers, Sequences, FiniteSets, TLC

VARIABLES
    raw,      \* raw_data_list handed to Analyzer(...)
    df,       \* self.df: one record per profile, a field per column
    pc,       \* position in run_analysis
    now,      \* the wall clock read by datetime.now(timezone.utc)
    result,   \* the DataFrame returned by run_analysis (a sequence of rows)
    runs,     \* number of completed calls of run_analysis on raw
    previous  \* what the call before the current one returned

vars == <<raw, df, pc, now, result, runs, previous>>

(***************************************************************************)
(* Bounds of the model.                                                    *)
(***************************************************************************)
TicksPerDay == 2   \* resolution of the clock
MaxTicks == 2      \* how far the clock may advance during the run
MaxBatch == 2      \* profiles in raw_data_list
MaxRuns == 2       \* calls of run_analysis on the same raw_data_list

(***************************************************************************)
(* Characters and strings.                                                 *)
(***************************************************************************)
UpperCase ==
    <<"A", "B", "C", "D", "E", "F", "G", "H", "I", "J", "K", "L", "M",
      "N", "O", "P", "Q", "R", "S", "T", "U", "V", "W", "X", "Y", "Z">>

LowerCase ==
    <<"a", "b", "c", "d", "e", "f", "g", "h", "i", "j", "k", "l", "m",
      "n", "o", "p", "q", "r", "s", "t", "u", "v", "w", "x", "y", "z">>

Digits == {"0", "1", "2", "3", "4", "5", "6", "7", "8", "9"}

\* str.lower() on one character; also the case folding of regex.IGNORECASE.
LowerChar(c) ==
    IF \E i \in 1..Len(UpperCase) : UpperCase[i] = c
    THEN LowerCase[CHOOSE i \in 1..Len(UpperCase) : UpperCase[i] = c]
    ELSE c

\* str.lower()
Lower(s) == [i \in 1..Len(s) |-> LowerChar(s[i])]

\* the regex class \w
IsWordChar(c) ==
    \/ \E i \in 1..Len(UpperCase) : UpperCase[i] = c \/ LowerCase[i] = c
    \/ c \in Digits
    \/ c = "_"

\* the regex assertion \b between s[i-1] and s[i]
WordBoundary(s, i) ==
    LET before == i > 1 /\ i - 1 <= Len(s) /\ IsWordChar(s[i - 1])
        after  == i >= 1 /\ i <= Len(s) /\ IsWordChar(s[i])
    IN  before # after

\* w occurs in s at position i, compared exactly (Python's `w in s` at i)
OccursAt(w, s, i) ==
    /\ i + Len(w) - 1 <= Len(s)
    /\ \A j \in 1..Len(w) : s[i + j - 1] = w[j]

\* Python's `w in s`
Contains(s, w) == \E i \in 1..(Len(s) - Len(w) + 1) : OccursAt(w, s, i)

\* any(w in s for w in words)
ContainsAny(s, words) == \E k \in 1..Len(words) : Contains(s, words[k])

\* _compile_pattern_list: the alternatives of \b(k1|k2|...)\b in order; the
\* pattern built from no keyword is \b()\b, whose one alternative is empty
CompilePatternList(keywords) ==
    IF keywords = <<>> THEN << <<>> >> ELSE keywords

\* alternative k matches in s at position i under \b(...)\b, IGNORECASE
MatchesAt(k, s, i) ==
    /\ i + Len(k) - 1 <= Len(s)
    /\ \A j \in 1..Len(k) : LowerChar(s[i + j - 1]) = LowerChar(k[j])
    /\ WordBoundary(s, i)
    /\ WordBoundary(s, i + Len(k))

\* the first alternative of the pattern that matches at position i, 0 if none
FirstAlternative(pattern, s, i) ==
    IF \E k \in 1..Len(pattern) : MatchesAt(pattern[k], s, i)
    THEN CHOOSE k \in 1..Len(pattern) :
            /\ MatchesAt(pattern[k], s, i)
            /\ \A h \in 1..(k - 1) : ~MatchesAt(pattern[h], s, i)
    ELSE 0

\* pattern.search(s): is there a match anywhere
Search(pattern, s) ==
    \E i \in 1..(Len(s) + 1) : FirstAlternative(pattern, s, i) # 0

RECURSIVE FindAllFrom(_, _, _, _)
\* pattern.findall(s) from position i on: the matched texts, leftmost first,
\* not overlapping; alt[j] is the alternative that matches at position j
FindAllFrom(pattern, s, alt, i) ==
    IF \A j \in i..Len(alt) : alt[j] = 0 THEN <<>>
    ELSE LET m == CHOOSE j \in i..Len(alt) :
                     alt[j] # 0 /\ \A h \in i..(j - 1) : alt[h] = 0
             n == Len(pattern[alt[m]])
         IN  <<SubSeq(s, m, m + n - 1)>>
                \o FindAllFrom(pattern, s, alt, IF n = 0 THEN m + 1 ELSE m + n)

\* pattern.findall(s)
FindAll(pattern, s) ==
    FindAllFrom(pattern, s,
                [j \in 1..(Len(s) + 1) |-> FirstAlternative(pattern, s, j)], 1)

\* str(x) for the values a bio can hold
Str(x) ==
    CASE x.t = "str"  -> x.v
      [] x.t = "none" -> <<"N", "o", "n", "e">>
      [] x.t = "nan"  -> <<"n", "a", "n">>

(***************************************************************************)
(* Configuration, src/src/config.py.                                       *)
(***************************************************************************)
TIER1_STRUGGLE_KEYWORDS ==
    << <<"n", "e", "e", "d", " ", "t", "o", " ", "p", "o", "s", "t", " ", "m", "o", "r", "e">>,
       <<"s", "h", "o", "u", "l", "d", " ", "t", "w", "e", "e", "t", " ", "m", "o", "r", "e">>,
       <<"n", "e", "e", "d", " ", "t", "o", " ", "b", "e", " ", "m", "o", "r", "e", " ", "c", "o",
         "n", "s", "i", "s", "t", "e", "n", "t">>,
       <<"b", "a", "d", " ", "a", "t", " ", "s", "o", "c", "i", "a", "l", " ", "m", "e", "d", "i",
         "a">>,
       <<"t", "e", "r", "r", "i", "b", "l", "e", " ", "a", "t", " ", "t", "w", "i", "t", "t", "e",
         "r">>,
       <<"s", "t", "r", "u", "g", "g", "l", "i", "n", "g", " ", "t", "o", " ", "s", "t", "a", "y",
         " ", "a", "c", "t", "i", "v", "e">>,
       <<"c", "a", "n", "'", "t", " ", "k", "e", "e", "p", " ", "u", "p", " ", "w", "i", "t", "h",
         " ", "p", "o", "s", "t", "i", "n", "g">>,
       <<"s", "h", "o", "u", "l", "d", " ", "e", "n", "g", "a", "g", "e", " ", "m", "o", "r",
         "e">> >>

TIER2_STRUGGLE_KEYWORDS ==
    << <<"n", "o", " ", "e", "n", "g", "a", "g", "e", "m", "e", "n", "t">>,
       <<"n", "o", " ", "o", "n", "e", " ", "s", "e", "e", "s", " ", "m", "y", " ", "t", "w", "e",
         "e", "t", "s">>,
       <<"p", "o", "s", "t", "i", "n", "g", " ", "i", "n", "t", "o", " ", "t", "h", "e", " ", "v",
         "o", "i", "d">>,
       <<"a", "l", "g", "o", "r", "i", "t", "h", "m", " ", "h", "a", "t", "e", "s", " ", "m", "e">>,
       <<"r", "e", "a", "c", "h", " ", "i", "s", " ", "d", "o", "w", "n">>,
       <<"t", "w", "i", "t", "t", "e", "r", " ", "i", "s", " ", "h", "a", "r", "d">>,
       <<"n", "o", " ", "t", "r", "a", "c", "t", "i", "o", "n">>,
       <<"h", "a", "v", "e", "n", "'", "t", " ", "p", "o", "s", "t", "e", "d", " ", "i", "n", " ",
         "a", " ", "w", "h", "i", "l", "e">>,
       <<"t", "r", "y", "i", "n", "g", " ", "t", "o", " ", "b", "e", " ", "m", "o", "r", "e", " ",
         "a", "c", "t", "i", "v", "e">>,
       <<"g", "e", "t", "t", "i", "n", "g", " ", "b", "a", "c", "k", " ", "t", "o", " ", "p", "o",
         "s", "t", "i", "n", "g">>,
       <<"b", "a", "c", "k", " ", "t", "o", " ", "b", "u", "i", "l", "d", "i", "n", "g", " ", "i",
         "n", " ", "p", "u", "b", "l", "i", "c">> >>

FOUNDER_BIO_KEYWORDS ==
    << <<"f", "o", "u", "n", "d", "e", "r">>,
       <<"c", "o", "f", "o", "u", "n", "d", "e", "r">>,
       <<"c", "e", "o">>,
       <<"c", "t", "o">>,
       <<"m", "a", "k", "e", "r">>,
       <<"b", "u", "i", "l", "d", "e", "r">>,
       <<"i", "n", "d", "i", "e", " ", "h", "a", "c", "k", "e", "r">>,
       <<"s", "o", "l", "o", " ", "f", "o", "u", "n", "d", "e", "r">>,
       <<"c", "r", "e", "a", "t", "o", "r">>,
       <<"e", "n", "t", "r", "e", "p", "r", "e", "n", "e", "u", "r">>,
       <<"s", "o", "l", "o", "p", "r", "e", "n", "e", "u", "r">>,
       <<"f", "o", "u", "n", "d", "i", "n", "g", " ", "e", "n", "g", "i", "n", "e", "e", "r">> >>

PROJECT_BIO_KEYWORDS ==
    << <<"a", "i", " ", "s", "t", "a", "r", "t", "u", "p">>,
       <<"w", "e", "b", "3", " ", "p", "r", "o", "j", "e", "c", "t">>,
       <<"o", "f", "f", "i", "c", "i", "a", "l">>,
       <<"t", "e", "a", "m">>,
       <<"l", "a", "b", "s">>,
       <<"p", "l", "a", "t", "f", "o", "r", "m">>,
       <<"p", "r", "o", "t", "o", "c", "o", "l">>,
       <<"n", "e", "t", "w", "o", "r", "k">>,
       <<"s", "t", "u", "d", "i", "o">>,
       <<"d", "a", "o">>,
       <<"w", "e", "'", "r", "e", " ", "b", "u", "i", "l", "d", "i", "n", "g">>,
       <<"o", "u", "r", " ", "m", "i", "s", "s", "i", "o", "n">>,
       <<"j", "o", "i", "n", " ", "u", "s">> >>

GENERAL_BIO_KEYWORDS ==
    << <<"a", "i">>,
       <<"w", "e", "b", "3">>,
       <<"c", "r", "y", "p", "t", "o">>,
       <<"b", "l", "o", "c", "k", "c", "h", "a", "i", "n">>,
       <<"d", "e", "f", "i">>,
       <<"s", "t", "a", "r", "t", "u", "p">>,
       <<"b", "u", "i", "l", "d", "i", "n", "g">>,
       <<"l", "l", "m">>,
       <<"m", "l">>,
       <<"o", "n", "c", "h", "a", "i", "n">> >>

FirstPersonPhrases ==
    << <<"i", " ", "a", "m">>,
       <<"i", "'", "m">>,
       <<"m", "y", " ", "s", "t", "a", "r", "t", "u", "p">>,
       <<"i", " ", "b", "u", "i", "l", "d">> >>

PluralPhrases ==
    << <<"w", "e", " ", "a", "r", "e">>,
       <<"w", "e", "'", "r", "e">>,
       <<"o", "u", "r", " ", "t", "e", "a", "m">>,
       <<"w", "e", " ", "b", "u", "i", "l", "d">> >>

FounderIdentityWords ==
    << <<"f", "o", "u", "n", "d", "e", "r">>,
       <<"c", "e", "o">>,
       <<"b", "u", "i", "l", "d", "e", "r">> >>

LaunchedWords ==
    << <<"l", "a", "u", "n", "c", "h", "e", "d">>,
       <<"m", "v", "p">>,
       <<"b", "e", "t", "a">>,
       <<"l", "i", "v", "e">> >>

FundedWords ==
    << <<"r", "a", "i", "s", "e", "d">>,
       <<"f", "u", "n", "d", "e", "d">>,
       <<"s", "e", "e", "d">>,
       <<"v", "c">> >>

\* Analyzer.__init__: self.patterns
Patterns ==
    [founder_bio    |-> CompilePatternList(FOUNDER_BIO_KEYWORDS),
     project_bio    |-> CompilePatternList(PROJECT_BIO_KEYWORDS),
     tier1_struggle |-> CompilePatternList(TIER1_STRUGGLE_KEYWORDS),
     tier2_struggle |-> CompilePatternList(TIER2_STRUGGLE_KEYWORDS),
     general_bio    |-> CompilePatternList(GENERAL_BIO_KEYWORDS)]

PatternLabels ==
    {"erratic_active", "sparse_consistent", "comeback_kid", "daily_poster", "dormant"}

\* follower_tier: the (min, max) ranges with their points, in declaration order
FOUNDER_SCORING ==
    [posting_pattern  |-> [erratic_active |-> 40, sparse_consistent |-> 30,
                           comeback_kid |-> 25, daily_poster |-> 0, dormant |-> 0],
     struggle_signals |-> [tier1_per_keyword |-> 15, tier2_per_keyword |-> 10,
                           max_points |-> 30],
     follower_tier    |-> << [min |-> 500,  max |-> 2000, points |-> 20],
                             [min |-> 2001, max |-> 5000, points |-> 15],
                             [min |-> 150,  max |-> 499,  points |-> 10] >>,
     bonus            |-> [has_founder_keywords |-> 10, is_funded |-> 10,
                           posted_last_3_days |-> 5]]

PROJECT_SCORING ==
    [posting_pattern  |-> [erratic_active |-> 40, sparse_consistent |-> 30,
                           comeback_kid |-> 25, daily_poster |-> 0, dormant |-> 0],
     struggle_signals |-> [tier1_per_keyword |-> 15, tier2_per_keyword |-> 10,
                           max_points |-> 30],
     follower_tier    |-> << [min |-> 1000, max |-> 3000, points |-> 20],
                             [min |-> 3001, max |-> 5000, points |-> 15],
                             [min |-> 150,  max |-> 999,  points |-> 10] >>,
     bonus            |-> [recently_launched |-> 10, is_funded |-> 10,
                           posted_last_3_days |-> 5]]

\* the grades with their inclusive ranges, in declaration order
SCORE_GRADES ==
    << [grade |-> "A", min |-> 70, max |-> 100],
       [grade |-> "B", min |-> 50, max |-> 69],
       [grade |-> "C", min |-> 30, max |-> 49],
       [grade |-> "F", min |-> 0,  max |-> 29] >>

MIN_QUALIFYING_SCORE == 50

FOLLOWER_TIERS ==
    << [tier |-> "Tier 0", min |-> 150,  max |-> 499],
       [tier |-> "Tier 1", min |-> 500,  max |-> 2000],
       [tier |-> "Tier 2", min |-> 2001, max |-> 5000] >>

\* the sentinel of the metrics and its parts
SENTINEL == 9999

(***************************************************************************)
(* Python values.                                                          *)
(***************************************************************************)
PyStr(chars) == [t |-> "str", v |-> chars]
PyInt(n)     == [t |-> "int", v |-> n]
PyList(xs)   == [t |-> "list", v |-> xs]
PyNone       == [t |-> "none"]
PyNaN        == [t |-> "nan"]
Absent       == [t |-> "absent"]

\* an ISO-8601 string naming the instant `tick`, with or without a UTC offset
IsoTime(tick)      == [t |-> "str", iso |-> TRUE, tick |-> tick, aware |-> TRUE]
NaiveIsoTime(tick) == [t |-> "str", iso |-> TRUE, tick |-> tick, aware |-> FALSE]
\* a string datetime.fromisoformat rejects
BadTime            == [t |-> "str", iso |-> FALSE]

\* the instant `days` whole days before tick 0
DaysAgo(days) == 0 - days * TicksPerDay

(***************************************************************************)
(* Exact arithmetic for numpy's mean and variance.                         *)
(***************************************************************************)
RECURSIVE Sum(_)
Sum(xs) == IF xs = <<>> THEN 0 ELSE Head(xs) + Sum(Tail(xs))

RECURSIVE SumSq(_)
SumSq(xs) == IF xs = <<>> THEN 0 ELSE Head(xs) * Head(xs) + SumSq(Tail(xs))

\* comparisons of a fraction q = <<numerator, denominator>>, denominator > 0,
\* with an integer n
QLe(q, n) == q[1] <= n * q[2]
QGe(q, n) == q[1] >= n * q[2]
QGt(q, n) == q[1] >  n * q[2]

\* np.mean(gaps)
Mean(gaps) == <<Sum(gaps), Len(gaps)>>

\* np.var(gaps), the population variance
Var(gaps) ==
    <<Len(gaps) * SumSq(gaps) - Sum(gaps) * Sum(gaps), Len(gaps) * Len(gaps)>>

RECURSIVE InsertDesc(_, _)
InsertDesc(x, sorted) ==
    IF sorted = <<>> THEN <<x>>
    ELSE IF x > Head(sorted) THEN <<x>> \o sorted
    ELSE <<Head(sorted)>> \o InsertDesc(x, Tail(sorted))

RECURSIVE SortDesc(_)
\* timestamps.sort(reverse=True)
SortDesc(xs) ==
    IF xs = <<>> THEN <<>>
    ELSE InsertDesc(xs[Len(xs)], SortDesc(SubSeq(xs, 1, Len(xs) - 1)))

(***************************************************************************)
(* Analyzer, src/src/analyzer.py.                                          *)
(***************************************************************************)
\* _classify_account_type with the project keywords looked up before the
\* founder keywords
ClassifyAccountTypeProjectFirst(bio) ==
    IF bio.t # "str" THEN "Unknown"
    ELSE LET bio_lower == Lower(bio.v)
         IN  IF Search(Patterns.project_bio, bio.v) THEN "Project"
             ELSE IF Search(Patterns.founder_bio, bio.v) THEN "Founder"
             ELSE IF ContainsAny(bio_lower, FirstPersonPhrases) THEN "Founder"
             ELSE IF ContainsAny(bio_lower, PluralPhrases) THEN "Project"
             ELSE "Unknown"

\* _classify_account_type
ClassifyAccountType(bio) ==
    IF bio.t # "str" THEN "Unknown"
    ELSE LET bio_lower == Lower(bio.v)
         IN  IF Search(Patterns.founder_bio, bio.v) THEN "Founder"
             ELSE IF Search(Patterns.project_bio, bio.v) THEN "Project"
             ELSE IF ContainsAny(bio_lower, FirstPersonPhrases) THEN "Founder"
             ELSE IF ContainsAny(bio_lower, PluralPhrases) THEN "Project"
             ELSE "Unknown"

\* the tuple (9999, 0, 9999)
SentinelMetrics ==
    [avg_gap_days |-> <<SENTINEL, 1>>, gap_variance |-> <<0, 1>>,
     days_since_last_post |-> SENTINEL]

\* the posts of tweets_list that have a 'timestamp' key
WithTimestamp(tweets_list) ==
    SelectSeq(tweets_list, LAMBDA tweet : tweet.timestamp.t # "absent")

\* datetime.fromisoformat(tweet['timestamp'].replace('Z', '+00:00')) raises:
\* AttributeError on a value that is no str, ValueError on a malformed string
ParseRaises(tweet) ==
    \/ tweet.timestamp.t # "str"
    \/ ~tweet.timestamp.iso

\* _calculate_posting_gaps, called on a list at the instant clock
CalculatePostingGaps(tweets_list, clock) ==
    IF Len(tweets_list) < 2 THEN SentinelMetrics
    ELSE LET stamped == WithTimestamp(tweets_list)
         IN  IF \E i \in 1..Len(stamped) : ParseRaises(stamped[i])
             THEN SentinelMetrics    \* except Exception
             ELSE IF Len(stamped) < 2 THEN SentinelMetrics
             ELSE IF \E i \in 1..Len(stamped) : ~stamped[i].timestamp.aware
             THEN SentinelMetrics    \* TypeError: naive against aware datetimes
             ELSE LET timestamps ==
                          SortDesc([i \in 1..Len(stamped) |-> stamped[i].timestamp.tick])
                      gaps == [i \in 1..(Len(timestamps) - 1) |->
                                 (timestamps[i] - timestamps[i + 1]) \div TicksPerDay]
                  IN  [avg_gap_days |-> Mean(gaps),
                       gap_variance |-> IF Len(gaps) > 1 THEN Var(gaps) ELSE <<0, 1>>,
                       days_since_last_post |-> (clock - timestamps[1]) \div TicksPerDay]

\* run_analysis, step 2: the lambda applied to the 'tweets' column
PostingData(tweets, clock) ==
    IF tweets.t = "list" THEN CalculatePostingGaps(tweets.v, clock)
    ELSE SentinelMetrics

\* the rules of _detect_posting_pattern without the check of days_since > 30
\* that comes first
DetectPostingPatternByGapsFirst(avg_gap, variance, days_since) ==
    IF QLe(avg_gap, 2) /\ QLe(variance, 1) THEN "daily_poster"
    ELSE IF QGe(variance, 4) /\ QGe(avg_gap, 2) /\ QLe(avg_gap, 7) /\ days_since <= 7
         THEN "erratic_active"
    ELSE IF QLe(variance, 3) /\ QGe(avg_gap, 7) /\ QLe(avg_gap, 14) /\ days_since <= 14
         THEN "sparse_consistent"
    ELSE IF days_since <= 7 /\ QGt(avg_gap, 14) /\ QGt(variance, 10)
         THEN "comeback_kid"
    ELSE "dormant"

\* the rules of _detect_posting_pattern with erratic_active asking for a
\* variance above 4 instead of at least 4
DetectPostingPatternStrictVariance(avg_gap, variance, days_since) ==
    IF days_since > 30 THEN "dormant"
    ELSE IF QLe(avg_gap, 2) /\ QLe(variance, 1) THEN "daily_poster"
    ELSE IF QGt(variance, 4) /\ QGe(avg_gap, 2) /\ QLe(avg_gap, 7) /\ days_since <= 7
         THEN "erratic_active"
    ELSE IF QLe(variance, 3) /\ QGe(avg_gap, 7) /\ QLe(avg_gap, 14) /\ days_since <= 14
         THEN "sparse_consistent"
    ELSE IF days_since <= 7 /\ QGt(avg_gap, 14) /\ QGt(variance, 10)
         THEN "comeback_kid"
    ELSE "dormant"

\* the rules of _detect_posting_pattern with daily_poster reaching up to an
\* average gap of 7 days, where sparse_consistent begins
DetectPostingPatternWideDaily(avg_gap, variance, days_since) ==
    IF days_since > 30 THEN "dormant"
    ELSE IF QLe(avg_gap, 7) /\ QLe(variance, 1) THEN "daily_poster"
    ELSE IF QGe(variance, 4) /\ QGe(avg_gap, 2) /\ QLe(avg_gap, 7) /\ days_since <= 7
         THEN "erratic_active"
    ELSE IF QLe(variance, 3) /\ QGe(avg_gap, 7) /\ QLe(avg_gap, 14) /\ days_since <= 14
         THEN "sparse_consistent"
    ELSE IF days_since <= 7 /\ QGt(avg_gap, 14) /\ QGt(variance, 10)
         THEN "comeback_kid"
    ELSE "dormant"

\* the rules of _detect_posting_pattern with daily_poster asking for an
\* average gap below one day
DetectPostingPatternBelowOneDay(avg_gap, variance, days_since) ==
    IF days_since > 30 THEN "dormant"
    ELSE IF ~QGe(avg_gap, 1) /\ QLe(variance, 1) THEN "daily_poster"
    ELSE IF QGe(variance, 4) /\ QGe(avg_gap, 2) /\ QLe(avg_gap, 7) /\ days_since <= 7
         THEN "erratic_active"
    ELSE IF QLe(variance, 3) /\ QGe(avg_gap, 7) /\ QLe(avg_gap, 14) /\ days_since <= 14
         THEN "sparse_consistent"
    ELSE IF days_since <= 7 /\ QGt(avg_gap, 14) /\ QGt(variance, 10)
         THEN "comeback_kid"
    ELSE "dormant"

\* _detect_posting_pattern
DetectPostingPattern(avg_gap, variance, days_since) ==
    IF days_since > 30 THEN "dormant"
    ELSE IF QLe(avg_gap, 2) /\ QLe(variance, 1) THEN "daily_poster"
    ELSE IF QGe(variance, 4) /\ QGe(avg_gap, 2) /\ QLe(avg_gap, 7) /\ days_since <= 7
         THEN "erratic_active"
    ELSE IF QLe(variance, 3) /\ QGe(avg_gap, 7) /\ QLe(avg_gap, 14) /\ days_since <= 14
         THEN "sparse_consistent"
    ELSE IF days_since <= 7 /\ QGt(avg_gap, 14) /\ QGt(variance, 10)
         THEN "comeback_kid"
    ELSE "dormant"

\* text[:100] + '...' if len(text) > 100 else text
Truncate(text) ==
    IF Len(text) > 100 THEN SubSeq(text, 1, 100) \o <<".", ".", ".">> ELSE text

\* {m.lower() for m in matches}
LoweredSet(matches) == {Lower(matches[i]) : i \in 1..Len(matches)}

\* `not tweets_list` for the values the 'tweets' column can hold
IsFalsy(x) ==
    \/ x.t = "none"
    \/ x.t \in {"list", "str"} /\ x.v = <<>>

\* every post of the list, however many
AllPosts(tweets) ==
    IF tweets.t = "list" THEN tweets.v ELSE <<>>

\* tweets_list[:10]; a str is sliced into its characters, none of which
\* contains 'text', so that its loop body is skipped
FirstTen(tweets) ==
    IF tweets.t = "list" THEN SubSeq(tweets.v, 1, IF Len(tweets.v) < 10 THEN Len(tweets.v) ELSE 10)
    ELSE <<>>

\* _find_struggle_keywords raises: TypeError on slicing a float, AttributeError
\* on text.lower() of a text that is no str
FindStruggleRaises(tweets) ==
    /\ ~IsFalsy(tweets)
    /\ \/ tweets.t = "nan"
       \/ \E i \in 1..Len(FirstTen(tweets)) :
             FirstTen(tweets)[i].text.t \notin {"str", "absent"}

RECURSIVE ScanTweetsBothSamples(_, _)
\* the loop of _find_struggle_keywords taking a tier-2 sample of every post
\* with a tier-2 match, whatever its tier-1 matches
ScanTweetsBothSamples(posts, acc) ==
    IF posts = <<>> THEN acc
    ELSE LET tweet == Head(posts)
         IN  IF tweet.text.t = "absent" THEN ScanTweetsBothSamples(Tail(posts), acc)
             ELSE LET text == tweet.text.v
                      tier1_matches == FindAll(Patterns.tier1_struggle, text)
                      tier2_matches == FindAll(Patterns.tier2_struggle, text)
                      sample1 == IF tier1_matches # <<>>
                                 THEN <<[text |-> Truncate(text), tier |-> 1]>>
                                 ELSE <<>>
                      sample2 == IF tier2_matches # <<>>
                                 THEN <<[text |-> Truncate(text), tier |-> 2]>>
                                 ELSE <<>>
                  IN  ScanTweetsBothSamples(Tail(posts),
                         [tier1_found |-> acc.tier1_found \cup LoweredSet(tier1_matches),
                          tier2_found |-> acc.tier2_found \cup LoweredSet(tier2_matches),
                          struggle_tweets |-> acc.struggle_tweets \o sample1 \o sample2])

RECURSIVE ScanTweets(_, _)
\* the loop of _find_struggle_keywords over posts, continuing from acc
ScanTweets(posts, acc) ==
    IF posts = <<>> THEN acc
    ELSE LET tweet == Head(posts)
         IN  IF tweet.text.t = "absent" THEN ScanTweets(Tail(posts), acc)
             ELSE LET text == tweet.text.v
                      tier1_matches == FindAll(Patterns.tier1_struggle, text)
                      tier2_matches == FindAll(Patterns.tier2_struggle, text)
                      sample1 == IF tier1_matches # <<>>
                                 THEN <<[text |-> Truncate(text), tier |-> 1]>>
                                 ELSE <<>>
                      sample2 == IF tier2_matches # <<>> /\ tier1_matches = <<>>
                                 THEN <<[text |-> Truncate(text), tier |-> 2]>>
                                 ELSE <<>>
                  IN  ScanTweets(Tail(posts),
                         [tier1_found |-> acc.tier1_found \cup LoweredSet(tier1_matches),
                          tier2_found |-> acc.tier2_found \cup LoweredSet(tier2_matches),
                          struggle_tweets |-> acc.struggle_tweets \o sample1 \o sample2])

\* _find_struggle_keywords, when it does not raise; list(set) is kept as the set
FindStruggleKeywords(tweets) ==
    IF IsFalsy(tweets)
    THEN [tier1_keywords |-> {}, tier2_keywords |-> {}, struggle_tweets |-> <<>>]
    ELSE LET found == ScanTweets(FirstTen(tweets),
                         [tier1_found |-> {}, tier2_found |-> {}, struggle_tweets |-> <<>>])
             n == Len(found.struggle_tweets)
         IN  [tier1_keywords |-> found.tier1_found,
              tier2_keywords |-> found.tier2_found,
              struggle_tweets |-> SubSeq(found.struggle_tweets, 1, IF n < 3 THEN n ELSE 3)]

FollowersText == <<"1", ".", "2", "K">>

BioWords ==
    << <<"f", "o", "u", "n", "d", "e", "r">>,
       <<"O", "F", "F", "I", "C", "I", "A", "L">>,
       <<"c", "o", "f", "o", "u", "n", "d", "e", "r", "s">>,
       <<"I", " ", "a", "m">>,
       <<"w", "e", " ", "a", "r", "e">>,
       <<"M", "i", "a", "m", "i">>,
       <<"a", "m", "a", "t", "e", "u", "r">>,
       <<"O", "u", "r", " ", "T", "e", "a", "m">> >>

MatcherTexts ==
    << <<"A", "I", " ", "f", "o", "u", "n", "d", "e", "r">>,
       <<"t", "r", "a", "i", "n", "i", "n", "g", " ", "d", "a", "t", "a">>,
       <<"g", "e", "t", "t", "i", "n", "g", " ", "b", "a", "c", "k", " ", "t", "o", " ", "p", "o",
         "s", "t", "i", "n", "g", " ", "i", "n", "t", "o", " ", "t", "h", "e", " ", "v", "o", "i",
         "d">>,
       <<"S", "o", "l", "o", " ", "F", "o", "u", "n", "d", "e", "r", " ", "a", "n", "d", " ", "m",
         "a", "k", "e", "r">>,
       <<"h", "e", "l", "l", "o">>,
       <<>>,
       <<"!", "!">>,
       <<"N", "o", " ", "E", "n", "g", "a", "g", "e", "m", "e", "n", "t", ".", " ", "N", "O", " ",
         "T", "R", "A", "C", "T", "I", "O", "N">>,
       <<"I", " ", "n", "e", "e", "d", " ", "t", "o", " ", "p", "o", "s", "t", " ", "m", "o", "r",
         "e">>,
       <<"c", "o", "f", "o", "u", "n", "d", "e", "r", "s">>,
       <<"w", "e", "b", "3", " ", "a", "i", " ", "s", "t", "a", "r", "t", "u", "p">>,
       <<"J", "o", "i", "n", " ", "u", "s", ":", " ", "o", "u", "r", " ", "m", "i", "s", "s", "i",
         "o", "n">>,
       <<"w", "e", "'", "r", "e", " ", "b", "u", "i", "l", "d", "i", "n", "g", " ", "l", "a", "b",
         "s">>,
       <<"r", "e", "a", "c", "h", " ", "i", "s", " ", "d", "o", "w", "n", ",", " ", "t", "w", "i",
         "t", "t", "e", "r", " ", "i", "s", " ", "h", "a", "r", "d">>,
       <<"c", "e", "o">>,
       <<"a", "i">> >>

(***************************************************************************)
(* Profiles.  The state names a profile by a descriptor: which biography,  *)
(* which post texts, how many followers, how old the posts are and which   *)
(* field shape; Input builds the profile the scraper would hand over.      *)
(***************************************************************************)
Descriptor(handle, bio, follower_count, texts, ages, shape) ==
    [handle |-> handle, bio |-> bio, follower_count |-> follower_count,
     texts |-> texts, ages |-> ages, shape |-> shape]

BioText(name) ==
    CASE name = "founder_struggling" ->
          <<"A", "I", " ", "f", "o", "u", "n", "d", "e", "r", " ", "b", "u", "i",
             "l", "d", "i", "n", "g", " ", "s", "o", "m", "e", "t", "h", "i", "n", "g", " ", "c", "o", "o",
             "l", ".", " ", "N", "e", "e", "d", " ", "t", "o", " ", "b", "e", " ", "m", "o", "r", "e", " ",
             "c", "o", "n", "s", "i", "s", "t", "e", "n", "t", " ", "w", "i", "t", "h", " ", "p", "o", "s",
             "t", "i", "n", "g", "!">>
      [] name = "project_decent" ->
          <<"A", "I", " ", "s", "t", "a", "r", "t", "u", "p", ".", " ", "W", "e", " ",
             "j", "u", "s", "t", " ", "r", "a", "i", "s", "e", "d", " ", "o", "u", "r", " ", "s", "e", "e",
             "d", " ", "r", "o", "u", "n", "d", ".", " ", "O", "f", "f", "i", "c", "i", "a", "l", " ", "a",
             "c", "c", "o", "u", "n", "t", ".">>
      [] name = "daily_poster" ->
          <<"F", "o", "u", "n", "d", "e", "r", " ", "p", "o", "s", "t", "i", "n", "g", " ",
             "d", "a", "i", "l", "y", ".", " ", "C", "o", "n", "s", "i", "s", "t", "e", "n", "t", " ", "c",
             "o", "n", "t", "e", "n", "t", " ", "c", "r", "e", "a", "t", "o", "r", ".">>
      [] name = "dormant" ->
          <<"W", "e", "b", "3", " ", "f", "o", "u", "n", "d", "e", "r", ".", " ", "W", "a",
             "s", " ", "b", "u", "i", "l", "d", "i", "n", "g", " ", "s", "o", "m", "e", "t", "h", "i", "n",
             "g", ".">>
      [] name = "funded_founder" ->
          <<"F", "o", "u", "n", "d", "e", "r", ".", " ", "R", "a", "i", "s", "e", "d",
             " ", "a", " ", "s", "e", "e", "d", " ", "r", "o", "u", "n", "d", ".">>
      [] name = "plain" ->
          <<"C", "o", "f", "f", "e", "e", " ", "a", "n", "d", " ", "l", "o", "n", "g", " ", "w",
             "a", "l", "k", "s">>

TextList(name) ==
    CASE name = "founder_struggling" ->
          << <<"R", "e", "a", "l", "l", "y", " ", "n", "e", "e", "d", " ", "t", "o", " ", "p", "o", "s",
             "t", " ", "m", "o", "r", "e", " ", "c", "o", "n", "s", "i", "s", "t", "e", "n", "t", "l",
             "y", ".", " ", "S", "t", "r", "u", "g", "g", "l", "i", "n", "g", " ", "w", "i", "t", "h",
             " ", "s", "o", "c", "i", "a", "l", " ", "m", "e", "d", "i", "a", " ", "l", "a", "t", "e",
             "l", "y", ".">>,
          <<"W", "o", "r", "k", "i", "n", "g", " ", "o", "n", " ", "m", "y", " ", "A", "I", " ", "s",
             "t", "a", "r", "t", "u", "p", " ", "b", "u", "t", " ", "b", "a", "d", " ", "a", "t", " ",
             "t", "w", "i", "t", "t", "e", "r", " ", "h", "o", "n", "e", "s", "t", "l", "y">>,
          <<"P", "o", "s", "t", "e", "d", " ", "s", "o", "m", "e", "t", "h", "i", "n", "g", " ", "a",
             "b", "o", "u", "t", " ", "A", "I">>,
          <<"A", "n", "o", "t", "h", "e", "r", " ", "A", "I", " ", "t", "w", "e", "e", "t">>,
          <<"B", "u", "i", "l", "d", "i", "n", "g", " ", "i", "n", " ", "p", "u", "b", "l", "i", "c",
             " ", "i", "s", " ", "h", "a", "r", "d", " ", "w", "h", "e", "n", " ", "y", "o", "u", " ",
             "h", "a", "v", "e", " ", "n", "o", " ", "e", "n", "g", "a", "g", "e", "m", "e", "n",
             "t">> >>
      [] name = "project_decent" ->
          << <<"P", "r", "o", "d", "u", "c", "t", " ", "u", "p", "d", "a", "t", "e", ":", " ", "n", "e",
             "w", " ", "f", "e", "a", "t", "u", "r", "e", "s", " ", "l", "a", "u", "n", "c", "h", "e",
             "d", " ", "t", "o", "d", "a", "y", "!">>,
          <<"J", "o", "i", "n", " ", "o", "u", "r", " ", "b", "e", "t", "a", " ", "p", "r", "o", "g",
             "r", "a", "m">>,
          <<"T", "h", "a", "n", "k", "s", " ", "f", "o", "r", " ", "2", "K", " ", "f", "o", "l", "l",
             "o", "w", "e", "r", "s", "!">> >>
      [] name = "daily_poster" ->
          << <<"D", "a", "i", "l", "y", " ", "p", "o", "s", "t", " ", "0">>,
          <<"D", "a", "i", "l", "y", " ", "p", "o", "s", "t", " ", "1">>,
          <<"D", "a", "i", "l", "y", " ", "p", "o", "s", "t", " ", "2">>,
          <<"D", "a", "i", "l", "y", " ", "p", "o", "s", "t", " ", "3">>,
          <<"D", "a", "i", "l", "y", " ", "p", "o", "s", "t", " ", "4">>,
          <<"D", "a", "i", "l", "y", " ", "p", "o", "s", "t", " ", "5">>,
          <<"D", "a", "i", "l", "y", " ", "p", "o", "s", "t", " ", "6">>,
          <<"D", "a", "i", "l", "y", " ", "p", "o", "s", "t", " ", "7">>,
          <<"D", "a", "i", "l", "y", " ", "p", "o", "s", "t", " ", "8">>,
          <<"D", "a", "i", "l", "y", " ", "p", "o", "s", "t", " ", "9">>,
          <<"D", "a", "i", "l", "y", " ", "p", "o", "s", "t", " ", "1", "0">>,
          <<"D", "a", "i", "l", "y", " ", "p", "o", "s", "t", " ", "1", "1">>,
          <<"D", "a", "i", "l", "y", " ", "p", "o", "s", "t", " ", "1", "2">>,
          <<"D", "a", "i", "l", "y", " ", "p", "o", "s", "t", " ", "1", "3">>,
          <<"D", "a", "i", "l", "y", " ", "p", "o", "s", "t", " ", "1", "4">> >>
      [] name = "dormant" ->
          << <<"M", "y", " ", "l", "a", "s", "t", " ", "p", "o", "s", "t">>,
          <<"P", "r", "e", "v", "i", "o", "u", "s", " ", "p", "o", "s", "t">> >>
      [] name = "two_tier1" ->
          << <<"I", " ", "n", "e", "e", "d", " ", "t", "o", " ", "p", "o", "s", "t", " ", "m", "o", "r",
             "e">>,
          <<"I", " ", "s", "h", "o", "u", "l", "d", " ", "t", "w", "e", "e", "t", " ", "m", "o", "r",
             "e">>,
          <<"S", "h", "i", "p", "p", "i", "n", "g", " ", "t", "o", "d", "a", "y">>,
          <<"H", "e", "l", "l", "o">> >>
      [] name = "one_tier1" ->
          << <<"I", " ", "n", "e", "e", "d", " ", "t", "o", " ", "p", "o", "s", "t", " ", "m", "o", "r",
             "e">>,
          <<"S", "h", "i", "p", "p", "i", "n", "g", " ", "t", "o", "d", "a", "y">>,
          <<"G", "o", "o", "d", " ", "m", "o", "r", "n", "i", "n", "g">> >>
      [] name = "both_tiers" ->
          << <<"I", " ", "n", "e", "e", "d", " ", "t", "o", " ", "p", "o", "s", "t", " ", "m", "o", "r",
             "e", " ", "b", "u", "t", " ", "t", "w", "i", "t", "t", "e", "r", " ", "i", "s", " ", "h",
             "a", "r", "d">>,
          <<"N", "o", " ", "t", "r", "a", "c", "t", "i", "o", "n", " ", "y", "e", "t">>,
          <<"G", "o", "o", "d", " ", "m", "o", "r", "n", "i", "n", "g">> >>
      [] name = "tier2" ->
          << <<"N", "o", " ", "t", "r", "a", "c", "t", "i", "o", "n", " ", "y", "e", "t">>,
          <<"T", "w", "i", "t", "t", "e", "r", " ", "i", "s", " ", "h", "a", "r", "d">>,
          <<"R", "e", "a", "c", "h", " ", "i", "s", " ", "d", "o", "w", "n">> >>
      [] name = "launched" ->
          << <<"W", "e", " ", "l", "a", "u", "n", "c", "h", "e", "d", " ", "o", "u", "r", " ", "b", "e",
             "t", "a">>,
          <<"S", "h", "i", "p", "p", "i", "n", "g", " ", "t", "o", "d", "a", "y">>,
          <<"G", "o", "o", "d", " ", "m", "o", "r", "n", "i", "n", "g">> >>
      [] name = "plain" ->
          << <<"H", "e", "l", "l", "o">>,
          <<"S", "h", "i", "p", "p", "i", "n", "g", " ", "t", "o", "d", "a", "y">>,
          <<"G", "o", "o", "d", " ", "m", "o", "r", "n", "i", "n", "g">> >>

\* ' '.join of the words of BioWords numbered by words
RECURSIVE JoinWords(_)
JoinWords(words) ==
    IF words = <<>> THEN <<>>
    ELSE IF Len(words) = 1 THEN BioWords[words[1]]
    ELSE BioWords[words[1]] \o <<" ">> \o JoinWords(Tail(words))

\* the 'bio' of the profile a descriptor names: None, the NaN of a profile
\* without the key, a text put together from BioWords, or a named text
BioOf(d) ==
    CASE d.bio = "none"     -> PyNone
      [] d.bio = "nan"      -> PyNaN
      [] d.bio = "by_words" -> PyStr(JoinWords(d.words))
      [] OTHER              -> PyStr(BioText(d.bio))

\* a post text by its kind: with a tier-1 keyword, with a tier-2 keyword, with
\* both, more than 100 characters long with a tier-1 keyword, exactly 100
\* characters long with a tier-2 keyword, without keyword, three with a
\* keyword no other kind has (tier 1, tier 2, tier 1), and one announcing a
\* launch
KindText(kind) ==
    CASE kind = "t1" ->
          <<"I", " ", "n", "e", "e", "d", " ", "t", "o", " ", "p", "o", "s", "t", " ", "m",
          "o", "r", "e">>
      [] kind = "t2" ->
          <<"n", "o", " ", "e", "n", "g", "a", "g", "e", "m", "e", "n", "t", " ", "t",
          "o", "d", "a", "y">>
      [] kind = "both" ->
          <<"B", "a", "d", " ", "a", "t", " ", "s", "o", "c", "i", "a", "l", " ", "m", "e",
          "d", "i", "a", ",", " ", "n", "o", " ", "t", "r", "a", "c", "t", "i", "o", "n">>
      [] kind = "long1" ->
          <<"I", " ", "s", "h", "o", "u", "l", "d", " ", "e", "n", "g", "a", "g", "e",
          " ", "m", "o", "r", "e", ",", " ", "b", "u", "t", " ", "b", "e", "t", "w", "e", "e", "n", " ",
          "s", "h", "i", "p", "p", "i", "n", "g", ",", " ", "s", "u", "p", "p", "o", "r", "t", " ", "a",
          "n", "d", " ", "f", "u", "n", "d", "r", "a", "i", "s", "i", "n", "g", " ", "t", "h", "e", "r",
          "e", " ", "i", "s", " ", "n", "e", "v", "e", "r", " ", "a", " ", "q", "u", "i", "e", "t", " ",
          "h", "o", "u", "r", " ", "l", "e", "f", "t", " ", "f", "o", "r", " ", "i", "t">>
      [] kind = "exact100" ->
          <<"M", "y", " ", "r", "e", "a", "c", "h", " ", "i", "s", " ", "d", "o", "w",
          "n", " ", "a", "g", "a", "i", "n", " ", "t", "h", "i", "s", " ", "w", "e", "e", "k", " ", "a",
          "n", "d", " ", "I", " ", "d", "o", " ", "n", "o", "t", " ", "k", "n", "o", "w", " ", "w", "h",
          "y", ".", " ", "A", "n", "y", " ", "i", "d", "e", "a", "s", "?", " ", "A", "s", "k", "i", "n",
          "g", " ", "f", "o", "r", " ", "a", " ", "f", "r", "i", "e", "n", "d", " ", "w", "h", "o", " ",
          "s", "h", "i", "p", "s", " ", "d", "a", "i">>
      [] kind = "plain" ->
          <<"s", "h", "i", "p", "p", "i", "n", "g", " ", "t", "o", "d", "a", "y">>
      [] kind = "t1b" ->
          <<"t", "e", "r", "r", "i", "b", "l", "e", " ", "a", "t", " ", "t", "w",
          "i", "t", "t", "e", "r">>
      [] kind = "t2b" ->
          <<"p", "o", "s", "t", "i", "n", "g", " ", "i", "n", "t", "o", " ", "t", "h",
          "e", " ", "v", "o", "i", "d">>
      [] kind = "t1c" ->
          <<"I", " ", "c", "a", "n", "'", "t", " ", "k", "e", "e", "p", " ", "u", "p", " ",
          "w", "i", "t", "h", " ", "p", "o", "s", "t", "i", "n", "g">>
      [] kind = "launch" ->
          <<"W", "e", " ", "l", "a", "u", "n", "c", "h", "e", "d", " ", "o", "u", "r", " ", "b", "e", "t", "a">>

\* the text of post i of the profile a descriptor names
PostText(d, i) ==
    IF d.texts = "by_kind" THEN KindText(d.kinds[i]) ELSE TextList(d.texts)[i]

\* the profile a descriptor names; post i was posted d.ages[i] whole days
\* before tick 0
Input(d) ==
    [handle |-> d.handle,
     bio |-> BioOf(d),
     follower_count |->
         IF d.shape = "text_followers" THEN PyStr(FollowersText)
         ELSE PyInt(d.follower_count),
     tweets |->
         IF d.shape = "no_tweets_key" THEN PyNaN
         ELSE PyList([i \in 1..Len(d.ages) |->
                 [text |-> IF d.shape = "null_text" /\ i = 1 THEN PyNone
                           ELSE PyStr(PostText(d, i)),
                  timestamp |-> IF d.shape = "bad_timestamp" /\ i = 2 THEN BadTime
                                ELSE IsoTime(DaysAgo(d.ages[i]))]])]

\* create_test_data of src/test_new_system.py
TestFounder ==
    Descriptor("test_founder_1", "founder_struggling", 1200, "founder_struggling",
               <<2, 5, 10, 12, 18>>, "ok")

TestProject ==
    Descriptor("test_project_1", "project_decent", 2500, "project_decent",
               <<7, 14, 21>>, "ok")

TestDaily ==
    Descriptor("test_daily", "daily_poster", 3000, "daily_poster",
               [i \in 1..15 |-> i - 1], "ok")

TestDormant ==
    Descriptor("test_dormant", "dormant", 800, "dormant", <<60, 65>>, "ok")

\* a funded founder who posts erratically, posted yesterday and admits twice
\* to struggling
HotFounder ==
    Descriptor("hot_founder", "funded_founder", 1200, "two_tier1", <<1, 2, 8, 9>>, "ok")

\* profiles with an unexpected field shape: no 'tweets' key (NaN in the frame),
\* a post whose text is None, a follower_count that is a str
NoTweetsKey ==
    Descriptor("no_tweets_key", "plain", 1200, "plain", <<>>, "no_tweets_key")

NullText ==
    Descriptor("null_text", "plain", 1200, "plain", <<1, 2>>, "null_text")

TextFollowers ==
    Descriptor("text_followers", "plain", 1200, "plain", <<1, 2, 3>>, "text_followers")

\* three posts, the second with a timestamp that does not parse
OneBadTimestamp ==
    Descriptor("one_bad_timestamp", "plain", 1200, "plain", <<1, 2, 3>>, "bad_timestamp")

Pool ==
    {TestFounder, TestProject, TestDaily, TestDormant, HotFounder,
     NoTweetsKey, NullText, TextFollowers, OneBadTimestamp}

\* the raw_data_list values of the model: up to MaxBatch profiles of Pool
Batches ==
    UNION {[1..n -> Pool] : n \in 0..MaxBatch}

\* Analyzer.__init__: pd.DataFrame(raw_data_list); the columns handle, bio,
\* follower_count and tweets of row i are those of Input(frame[i].input)
DataFrame(raw_data_list) ==
    [i \in 1..Len(raw_data_list) |-> [input |-> raw_data_list[i]]]

\* row[column] for a column the frame was built with
Bio(row)           == Input(row.input).bio
FollowerCount(row) == Input(row.input).follower_count
TweetsOf(row)      == Input(row.input).tweets

Min(a, b) == IF a < b THEN a ELSE b

\* the Founder tables for every account type but Project
ScoringConfigFounderByDefault(account_type) ==
    IF account_type = "Project" THEN PROJECT_SCORING ELSE FOUNDER_SCORING

\* scoring_config of _calculate_smm_score
ScoringConfig(account_type) ==
    IF account_type = "Founder" THEN FOUNDER_SCORING ELSE PROJECT_SCORING

\* scoring_config['posting_pattern'].get(pattern, 0)
PatternScore(account_type, pattern) ==
    LET table == ScoringConfig(account_type).posting_pattern
    IN  IF pattern \in DOMAIN table THEN table[pattern] ELSE 0

\* the tier-1 part of struggle_score under the weights signals; the 30 is
\* written in the code
Tier1Points(signals, tier1_count) ==
    IF tier1_count > 0
    THEN Min(tier1_count * signals.tier1_per_keyword, 30)
    ELSE 0

\* the tier-2 top-up of struggle_score, given the tier-1 part
Tier2Points(signals, tier2_count, tier1_score) ==
    IF tier2_count > 0 /\ tier1_score < 30
    THEN Min(tier2_count * signals.tier2_per_keyword, 30 - tier1_score)
    ELSE 0

\* min(struggle_score, scoring_config['struggle_signals']['max_points'])
StrugglePoints(signals, tier1_count, tier2_count) ==
    LET tier1_score == Tier1Points(signals, tier1_count)
    IN  Min(tier1_score + Tier2Points(signals, tier2_count, tier1_score),
            signals.max_points)

\* the same under the configuration of the account type
Tier1Score(account_type, tier1_count) ==
    Tier1Points(ScoringConfig(account_type).struggle_signals, tier1_count)

Tier2Score(account_type, tier2_count, tier1_score) ==
    Tier2Points(ScoringConfig(account_type).struggle_signals, tier2_count, tier1_score)

StruggleScore(account_type, tier1_count, tier2_count) ==
    StrugglePoints(ScoringConfig(account_type).struggle_signals, tier1_count, tier2_count)

\* min_f <= follower_count < max_f: the upper bound left out of the range
InRangeBelowMax(range, follower_count) ==
    /\ follower_count.t = "int"
    /\ range.min <= follower_count.v
    /\ follower_count.v < range.max

\* min_f <= follower_count <= max_f; every comparison with NaN is False
InRange(range, follower_count) ==
    /\ follower_count.t = "int"
    /\ range.min <= follower_count.v
    /\ follower_count.v <= range.max

\* index of the first range of ranges that holds follower_count, 0 if none
FirstRange(ranges, follower_count) ==
    IF \E k \in 1..Len(ranges) : InRange(ranges[k], follower_count)
    THEN CHOOSE k \in 1..Len(ranges) :
            /\ InRange(ranges[k], follower_count)
            /\ \A h \in 1..(k - 1) : ~InRange(ranges[h], follower_count)
    ELSE 0

\* tier_score of _calculate_smm_score
FollowerTierScore(account_type, follower_count) ==
    LET ranges == ScoringConfig(account_type).follower_tier
        k == FirstRange(ranges, follower_count)
    IN  IF k = 0 THEN 0 ELSE ranges[k].points

RECURSIVE JoinTexts(_)
\* ' '.join([t.get('text', '') for t in tweets])
JoinTexts(posts) ==
    IF posts = <<>> THEN <<>>
    ELSE LET text == IF Head(posts).text.t = "absent" THEN <<>> ELSE Head(posts).text.v
         IN  IF Len(posts) = 1 THEN text
             ELSE text \o <<" ">> \o JoinTexts(Tail(posts))

\* the bonuses of _calculate_smm_score that were triggered
HasFounderIdentity(account_type, bio) ==
    account_type = "Founder" /\ ContainsAny(bio, FounderIdentityWords)

RecentlyLaunched(account_type, tweets_text) ==
    account_type = "Project" /\ ContainsAny(Lower(tweets_text), LaunchedWords)

IsFunded(bio, tweets_text) ==
    \E k \in 1..Len(FundedWords) :
        \/ Contains(Lower(bio), FundedWords[k])
        \/ Contains(Lower(tweets_text), FundedWords[k])

\* row.get('days_since_last_post', 999) <= 7: a week instead of three days
PostedLastWeek(days_since) == days_since <= 7

\* row.get('days_since_last_post', 999) <= 3
PostedLast3Days(days_since) == days_since <= 3

\* "Assign grade": the first grade whose range holds score, else 'F'
AssignGrade(score) ==
    IF \E k \in 1..Len(SCORE_GRADES) :
          SCORE_GRADES[k].min <= score /\ score <= SCORE_GRADES[k].max
    THEN SCORE_GRADES[CHOOSE k \in 1..Len(SCORE_GRADES) :
            /\ SCORE_GRADES[k].min <= score /\ score <= SCORE_GRADES[k].max
            /\ \A h \in 1..(k - 1) :
                  ~(SCORE_GRADES[h].min <= score /\ score <= SCORE_GRADES[h].max)].grade
    ELSE "F"

\* the sum of the four dimensions, returned without the cap at 100
UncappedScore(score) == score

\* min(score, 100)
ReportedScore(score) == Min(score, 100)

\* _calculate_smm_score raises: TypeError on iterating None or a float,
\* AttributeError on 'c'.get for the characters of a str, TypeError on joining
\* a text that is no str
ScoreRaises(row) ==
    \/ TweetsOf(row).t \in {"none", "nan"}
    \/ TweetsOf(row).t = "str" /\ TweetsOf(row).v # <<>>
    \/ /\ TweetsOf(row).t = "list"
       /\ \E i \in 1..Len(TweetsOf(row).v) : TweetsOf(row).v[i].text.t \notin {"str", "absent"}

\* _calculate_smm_score, when it does not raise; raw_score is the local `score`
\* at the end of the function
CalculateSmmScore(row) ==
    LET account_type  == row.account_type
        pattern       == row.posting_pattern
        pattern_score == PatternScore(account_type, pattern)
        tier1_count   == Cardinality(row.tier1_struggle_keywords)
        tier2_count   == Cardinality(row.tier2_struggle_keywords)
        tier1_score   == Tier1Score(account_type, tier1_count)
        struggle      == StruggleScore(account_type, tier1_count, tier2_count)
        tier_range    == FirstRange(ScoringConfig(account_type).follower_tier,
                                    FollowerCount(row))
        tier_score    == FollowerTierScore(account_type, FollowerCount(row))
        bio           == Lower(Str(Bio(row)))
        tweets_text   == IF TweetsOf(row).t = "list" THEN JoinTexts(TweetsOf(row).v) ELSE <<>>
        founder       == HasFounderIdentity(account_type, bio)
        launched      == RecentlyLaunched(account_type, tweets_text)
        funded        == IsFunded(bio, tweets_text)
        recent        == PostedLast3Days(row.days_since_last_post)
        bonus         == ScoringConfig(account_type).bonus
        score         == pattern_score + struggle + tier_score
                         + (IF founder THEN bonus.has_founder_keywords ELSE 0)
                         + (IF launched THEN bonus.recently_launched ELSE 0)
                         + (IF funded THEN bonus.is_funded ELSE 0)
                         + (IF recent THEN bonus.posted_last_3_days ELSE 0)
        reasons ==
            (IF pattern_score > 0
             THEN <<[kind |-> "posting", n |-> pattern_score]>> ELSE <<>>)
            \o (IF tier1_count > 0
                THEN <<[kind |-> "tier1_struggle", n |-> tier1_count]>> ELSE <<>>)
            \o (IF tier2_count > 0 /\ tier1_score < 30
                THEN <<[kind |-> "tier2_struggle", n |-> tier2_count]>> ELSE <<>>)
            \o (IF tier_range # 0
                THEN <<[kind |-> "followers", n |-> tier_score]>> ELSE <<>>)
            \o (IF founder THEN <<[kind |-> "founder_identity", n |-> 10]>> ELSE <<>>)
            \o (IF launched THEN <<[kind |-> "recently_launched", n |-> 10]>> ELSE <<>>)
            \o (IF funded THEN <<[kind |-> "funded", n |-> 10]>> ELSE <<>>)
            \o (IF recent THEN <<[kind |-> "posted_last_3_days", n |-> 5]>> ELSE <<>>)
    IN  [raw_score      |-> score,
         smm_need_score |-> ReportedScore(score),
         score_grade    |-> AssignGrade(score),
         score_reasons  |-> IF reasons # <<>> THEN reasons
                            ELSE <<[kind |-> "no_qualifying_signals", n |-> 0]>>]

(***************************************************************************)
(* run_analysis, src/src/analyzer.py, one action per step.                 *)
(***************************************************************************)
\* self.df with one more group of columns: row i extended by cols[i]
WithColumns(frame, cols) ==
    [i \in 1..Len(frame) |-> cols[i] @@ frame[i]]

Init ==
    /\ raw \in Batches
    /\ df = DataFrame(raw)
    /\ pc = "start"
    /\ now = 0
    /\ result = <<>>
    /\ runs = 0
    /\ previous = <<>>

\* the empty-frame check and step 1: classify account type
Step1Classify ==
    /\ pc = "start"
    /\ IF df = <<>>
       THEN /\ pc' = "done"
            /\ result' = <<>>
            /\ runs' = runs + 1
            /\ df' = df
       ELSE /\ df' = WithColumns(df,
                        [i \in 1..Len(df) |->
                            [account_type |-> ClassifyAccountType(Bio(df[i]))]])
            /\ pc' = "gaps"
            /\ UNCHANGED <<result, runs>>
    /\ UNCHANGED <<raw, now, previous>>

\* the clock readings of one pass over n rows: it never runs backwards
ClockReadings(n) ==
    {reads \in [1..n -> now..MaxTicks] :
        \A i \in 1..(n - 1) : reads[i] <= reads[i + 1]}

\* no profile of the batch has the key 'tweets': the frame has no such column
\* and self.df['tweets'] raises KeyError
TweetsColumnMissing ==
    \A i \in 1..Len(df) : df[i].input.shape = "no_tweets_key"

\* step 2, first half: posting_data and its three columns; every call of
\* _calculate_posting_gaps reads the clock
Step2PostingGaps ==
    /\ pc = "gaps"
    /\ IF TweetsColumnMissing
       THEN /\ pc' = "aborted"
            /\ UNCHANGED <<df, now>>
       ELSE /\ \E reads \in ClockReadings(Len(df)) :
                  /\ df' = WithColumns(df,
                              [i \in 1..Len(df) |->
                                  PostingData(TweetsOf(df[i]), reads[i])])
                  /\ now' = reads[Len(df)]
            /\ pc' = "pattern"
    /\ UNCHANGED <<raw, result, runs, previous>>

\* step 2, second half: the posting_pattern column
Step2PostingPattern ==
    /\ pc = "pattern"
    /\ df' = WithColumns(df,
                [i \in 1..Len(df) |->
                    [posting_pattern |->
                        DetectPostingPattern(df[i].avg_gap_days, df[i].gap_variance,
                                             df[i].days_since_last_post)]])
    /\ pc' = "struggle"
    /\ UNCHANGED <<raw, now, result, runs, previous>>

\* step 3: struggle keywords; an exception of _find_struggle_keywords leaves
\* run_analysis
Step3Struggle ==
    /\ pc = "struggle"
    /\ IF \E i \in 1..Len(df) : FindStruggleRaises(TweetsOf(df[i]))
       THEN /\ pc' = "aborted"
            /\ df' = df
       ELSE /\ df' = WithColumns(df,
                        [i \in 1..Len(df) |->
                            LET found == FindStruggleKeywords(TweetsOf(df[i]))
                            IN  [tier1_struggle_keywords |-> found.tier1_keywords,
                                 tier2_struggle_keywords |-> found.tier2_keywords,
                                 struggle_tweets         |-> found.struggle_tweets,
                                 struggle_keywords_found |->
                                     found.tier1_keywords \cup found.tier2_keywords]])
            /\ pc' = "tier"
    /\ UNCHANGED <<raw, now, result, runs, previous>>

\* the lambda of step 4 raises TypeError on comparing an int with a str
FollowerTierRaises(follower_count) == follower_count.t \notin {"int", "nan"}

\* the lambda of step 4
FollowerTier(follower_count) ==
    LET k == FirstRange(FOLLOWER_TIERS, follower_count)
    IN  IF k = 0 THEN "N/A" ELSE FOLLOWER_TIERS[k].tier

\* step 4: follower tiers
Step4FollowerTier ==
    /\ pc = "tier"
    /\ IF \E i \in 1..Len(df) : FollowerTierRaises(FollowerCount(df[i]))
       THEN /\ pc' = "aborted"
            /\ df' = df
       ELSE /\ df' = WithColumns(df,
                        [i \in 1..Len(df) |->
                            [follower_tier |-> FollowerTier(FollowerCount(df[i]))]])
            /\ pc' = "score"
    /\ UNCHANGED <<raw, now, result, runs, previous>>

\* step 5: scores, grades and reasons
Step5Score ==
    /\ pc = "score"
    /\ IF \E i \in 1..Len(df) : ScoreRaises(df[i])
       THEN /\ pc' = "aborted"
            /\ df' = df
       ELSE /\ df' = WithColumns(df,
                        [i \in 1..Len(df) |->
                            LET scored == CalculateSmmScore(df[i])
                            IN  [smm_need_score |-> scored.smm_need_score,
                                 score_grade    |-> scored.score_grade,
                                 score_reasons  |-> scored.score_reasons]])
            /\ pc' = "filter"
    /\ UNCHANGED <<raw, now, result, runs, previous>>

\* qualified_df[final_columns]: the columns of OUTPUT_COLUMNS the frame has
OutputRow(row) ==
    [input                   |-> row.input,   \* handle, bio, follower_count
     account_type            |-> row.account_type,
     smm_need_score          |-> row.smm_need_score,
     score_grade             |-> row.score_grade,
     score_reasons           |-> row.score_reasons,
     posting_pattern         |-> row.posting_pattern,
     follower_tier           |-> row.follower_tier,
     days_since_last_post    |-> row.days_since_last_post,
     struggle_keywords_found |-> row.struggle_keywords_found,
     struggle_tweets         |-> row.struggle_tweets]

\* self.df without the filter
Unfiltered(frame) == frame

\* self.df[self.df['smm_need_score'] >= config.MIN_QUALIFYING_SCORE]
Qualified(frame) ==
    SelectSeq(frame, LAMBDA row : row.smm_need_score >= MIN_QUALIFYING_SCORE)

\* row a sorts before row b under by=['smm_need_score'], ascending=False
SortsBeforeByScore(a, b) == a.smm_need_score > b.smm_need_score

\* row a sorts before row b under by=SORT_PRIORITY, ascending=False
SortsBefore(a, b) ==
    \/ a.smm_need_score > b.smm_need_score
    \/ /\ a.smm_need_score = b.smm_need_score
       /\ FollowerCount(a).v > FollowerCount(b).v

RECURSIVE InsertRow(_, _)
\* row, which came before every row of sorted, goes after the rows that sort
\* before it and before the rows with equal keys
InsertRow(row, sorted) ==
    IF sorted = <<>> THEN <<row>>
    ELSE IF SortsBefore(Head(sorted), row)
         THEN <<Head(sorted)>> \o InsertRow(row, Tail(sorted))
    ELSE <<row>> \o sorted

RECURSIVE SortValues(_)
\* final_df.sort_values(by=SORT_PRIORITY, ascending=False): rows with equal keys
\* keep their order
SortValues(rows) ==
    IF rows = <<>> THEN <<>>
    ELSE InsertRow(Head(rows), SortValues(Tail(rows)))

\* steps 6 and 7: filter, select the output columns, sort and return; an
\* empty selection is returned at once
Step6FilterAndSort ==
    /\ pc = "filter"
    /\ LET qualified_df == Qualified(df)
       IN  IF qualified_df = <<>>
           THEN result' = <<>>
           ELSE result' = SortValues([i \in 1..Len(qualified_df) |->
                                         OutputRow(qualified_df[i])])
    /\ pc' = "done"
    /\ runs' = runs + 1
    /\ UNCHANGED <<raw, df, now, previous>>

\* main() run again on the same raw_data_list, at the same time or later
Rerun ==
    /\ pc = "done"
    /\ runs < MaxRuns
    /\ previous' = result
    /\ df' = DataFrame(raw)
    /\ pc' = "start"
    /\ result' = <<>>
    /\ \E later \in now..MaxTicks : now' = later
    /\ UNCHANGED <<raw, runs>>

Next ==
    \/ Step1Classify
    \/ Step2PostingGaps
    \/ Step2PostingPattern
    \/ Step3Struggle
    \/ Step4FollowerTier
    \/ Step5Score
    \/ Step6FilterAndSort
    \/ Rerun

Spec == Init /\ [][Next]_vars

(***************************************************************************)
(* _calculate_smm_score over one analysed profile: the pipeline run on a   *)
(* single profile drawn from every combination of biography, follower      *)
(* count, post texts and post ages below.                                  *)
(***************************************************************************)
ScoreBios == {"funded_founder", "dormant", "project_decent", "plain", "none"}

\* the bounds of every configured follower range, and their neighbours
FollowerSamples ==
    {0, 149, 150, 499, 500, 999, 1000, 2000, 2001, 3000, 3001, 5000, 5001}

ScoreTexts == {"two_tier1", "one_tier1", "both_tiers", "tier2", "launched", "plain"}

\* ages in days of up to three posts: erratic with a post yesterday, erratic,
\* weekly, a comeback, daily, stale, a single post, no post
ScoreAges ==
    {<<1, 2, 8>>, <<4, 6, 12>>, <<7, 14, 21>>, <<1, 3, 43>>, <<0, 1, 2>>,
     <<60, 65, 70>>, <<5>>, <<>>}

\* every combination of the samples, profiles whose posts hold two tier-1
\* keywords and a tier-2 keyword or the news of a launch, and the daily poster
\* of the test data
ScoreInputs ==
    {Descriptor("lead", b, f, t, a, "ok") :
        b \in ScoreBios, f \in FollowerSamples, t \in ScoreTexts, a \in ScoreAges}
    \cup {Descriptor("lead", b, 1000, "by_kind", <<1, 2, 8>>, "ok") @@ [kinds |-> kinds] :
              b \in ScoreBios, kinds \in {<<"t1", "t1b", "t2">>, <<"t1", "t1b", "launch">>}}
    \cup {TestDaily}

InitScore ==
    /\ raw \in {<<d>> : d \in ScoreInputs}
    /\ df = DataFrame(raw)
    /\ pc = "start"
    /\ now = 0
    /\ result = <<>>
    /\ runs = 0
    /\ previous = <<>>

NextScore ==
    \/ Step1Classify
    \/ Step2PostingGaps
    \/ Step2PostingPattern
    \/ Step3Struggle
    \/ Step4FollowerTier
    \/ Step5Score
    \/ Step6FilterAndSort

SpecScore == InitScore /\ [][NextScore]_vars

(***************************************************************************)
(* _detect_posting_pattern over a grid of metrics: averages and variances  *)
(* in half days, days since the last post up to MaxDays, and the sentinel. *)
(***************************************************************************)
MaxAvgHalves == 30
MaxVarHalves == 22
MaxDays == 32

PatternAvgs == {<<n, 2>> : n \in 0..MaxAvgHalves} \cup {<<SENTINEL, 1>>}
PatternVars == {<<n, 2>> : n \in 0..MaxVarHalves}
PatternDays == (0..MaxDays) \cup {60, SENTINEL}

InitPattern ==
    /\ raw = <<>>
    /\ \E a \in PatternAvgs, v \in PatternVars, d \in PatternDays :
          df = <<[avg_gap_days |-> a, gap_variance |-> v, days_since_last_post |-> d]>>
    /\ pc = "pattern"
    /\ now = 0
    /\ result = <<>>
    /\ runs = 0
    /\ previous = <<>>

NextPattern == Step2PostingPattern

SpecPattern == InitPattern /\ [][NextPattern]_vars

(***************************************************************************)
(* _classify_account_type over biographies put together from up to         *)
(* MaxBioWords words of BioWords, a None biography and a missing one.      *)
(***************************************************************************)
MaxBioWords == 3

ClassifyInputs ==
    {Descriptor("lead", "by_words", 1200, "plain", <<>>, "ok") @@ [words |-> ws] :
        ws \in UNION {[1..n -> 1..Len(BioWords)] : n \in 0..MaxBioWords}}
    \cup {Descriptor("lead", b, 1200, "plain", <<>>, "ok") : b \in {"none", "nan"}}

InitClassify ==
    /\ raw \in {<<d>> : d \in ClassifyInputs}
    /\ df = DataFrame(raw)
    /\ pc = "start"
    /\ now = 0
    /\ result = <<>>
    /\ runs = 0
    /\ previous = <<>>

SpecClassify == InitClassify /\ [][Step1Classify]_vars

(***************************************************************************)
(* The matchers of _compile_pattern_list applied to texts: every keyword   *)
(* list of the configuration, the list ["ai"] and the empty list, against  *)
(* the texts of MatcherTexts.                                              *)
(***************************************************************************)
KeywordList(name) ==
    CASE name = "empty"       -> <<>>
      [] name = "ai"          -> << <<"a", "i">> >>
      [] name = "tier1"       -> TIER1_STRUGGLE_KEYWORDS
      [] name = "tier2"       -> TIER2_STRUGGLE_KEYWORDS
      [] name = "founder_bio" -> FOUNDER_BIO_KEYWORDS
      [] name = "project_bio" -> PROJECT_BIO_KEYWORDS
      [] name = "general_bio" -> GENERAL_BIO_KEYWORDS

KeywordListNames ==
    {"empty", "ai", "tier1", "tier2", "founder_bio", "project_bio", "general_bio"}

InitMatcher ==
    /\ raw = <<>>
    /\ \E name \in KeywordListNames, n \in 1..Len(MatcherTexts) :
          df = <<[keywords |-> name, text |-> n]>>
    /\ pc = "match"
    /\ now = 0
    /\ result = <<>>
    /\ runs = 0
    /\ previous = <<>>

\* pattern.search(text) and {m.lower() for m in pattern.findall(text)} for the
\* pattern compiled from the keyword list
MatchText ==
    /\ pc = "match"
    /\ df' = WithColumns(df,
                [i \in 1..Len(df) |->
                    LET pattern == CompilePatternList(KeywordList(df[i].keywords))
                        text    == MatcherTexts[df[i].text]
                    IN  [found   |-> Search(pattern, text),
                         matches |-> LoweredSet(FindAll(pattern, text))]])
    /\ pc' = "matched"
    /\ UNCHANGED <<raw, now, result, runs, previous>>

SpecMatcher == InitMatcher /\ [][MatchText]_vars

(***************************************************************************)
(* _find_struggle_keywords over lists of posts: up to MaxScanPrefix posts  *)
(* of the kinds that yield a sample, then nothing, or a post with a tier-2 *)
(* keyword, posts without keyword up to the 9th and a 10th post with a     *)
(* tier-1 keyword, or the same and an 11th post with a tier-1 keyword.     *)
(***************************************************************************)
MaxScanPrefix == 2

ScanKinds == {"t1", "t2", "both", "long1", "exact100"}

ScanTails(p) ==
    LET ten == <<"t2b">> \o [i \in 1..(8 - p) |-> "plain"] \o <<"t1b">>
    IN  {<<>>, ten, ten \o <<"t1c">>}

ScanInputs ==
    {Descriptor("lead", "plain", 1200, "by_kind", [i \in 1..Len(kinds) |-> i], "ok")
        @@ [kinds |-> kinds] :
        kinds \in UNION {{prefix \o tail : tail \in ScanTails(Len(prefix))} :
                    prefix \in UNION {[1..n -> ScanKinds] : n \in 0..MaxScanPrefix}}}

InitStruggle ==
    /\ raw \in {<<d>> : d \in ScanInputs}
    /\ df = DataFrame(raw)
    /\ pc = "struggle"
    /\ now = 0
    /\ result = <<>>
    /\ runs = 0
    /\ previous = <<>>

SpecStruggle == InitStruggle /\ [][Step3Struggle]_vars

(***************************************************************************)
(* The struggle dimension of _calculate_smm_score over configurations of   *)
(* its weights and over keyword counts up to MaxKeywords.                  *)
(***************************************************************************)
MaxKeywords == 3

Tier1Weights == {5, 15, 25}
Tier2Weights == {5, 10}
MaxPointsValues == {20, 30, 40}

InitWeights ==
    /\ raw = <<>>
    /\ \E w1 \in Tier1Weights, w2 \in Tier2Weights, m \in MaxPointsValues,
          n1 \in 0..MaxKeywords, n2 \in 0..MaxKeywords :
          df = <<[signals |-> [tier1_per_keyword |-> w1, tier2_per_keyword |-> w2,
                               max_points |-> m],
                  tier1_count |-> n1, tier2_count |-> n2]>>
    /\ pc = "struggle_score"
    /\ now = 0
    /\ result = <<>>
    /\ runs = 0
    /\ previous = <<>>

\* the struggle contribution added to score
ScoreStruggle ==
    /\ pc = "struggle_score"
    /\ df' = WithColumns(df,
                [i \in 1..Len(df) |->
                    [struggle_score |->
                        StrugglePoints(df[i].signals, df[i].tier1_count,
                                       df[i].tier2_count)]])
    /\ pc' = "struggle_scored"
    /\ UNCHANGED <<raw, now, result, runs, previous>>

SpecWeights == InitWeights /\ [][ScoreStruggle]_vars

(***************************************************************************)
(* The output of run_analysis over batches of up to MaxRankBatch profiles  *)
(* that score alike and differently, above and below the minimum, analysed *)
(* at one instant.                                                         *)
(***************************************************************************)
MaxRankBatch == 3

\* two funded founders who differ in follower_count only, a weekly project,
\* the test founder, a profile without posts
RankPool ==
    {Descriptor("hot_1200", "funded_founder", 1200, "two_tier1", <<1, 2, 8>>, "ok"),
     Descriptor("hot_2000", "funded_founder", 2000, "two_tier1", <<1, 2, 8>>, "ok"),
     Descriptor("weekly_project", "project_decent", 2500, "project_decent",
                <<6, 13, 20>>, "ok"),
     TestFounder,
     Descriptor("quiet", "plain", 600, "plain", <<>>, "ok")}

InitRank ==
    /\ raw \in UNION {[1..n -> RankPool] : n \in 0..MaxRankBatch}
    /\ df = DataFrame(raw)
    /\ pc = "start"
    /\ now = MaxTicks
    /\ result = <<>>
    /\ runs = 0
    /\ previous = <<>>

SpecRank == InitRank /\ [][NextScore]_vars


(***************************************************************************)
(* _calculate_posting_gaps over posts older and newer than the clock: up   *)
(* to MaxPosts posts, each a whole number of days before tick 0 or one day *)
(* after it.                                                               *)
(***************************************************************************)
MaxPosts == 3

\* ages in days of a post; -1 is a post stamped one day after tick 0
GapAges == {-1, 0, 1, 3, 40}

GapInputs ==
    {Descriptor("lead", "plain", 1200, "plain", ages, "ok") :
        ages \in UNION {[1..n -> GapAges] : n \in 0..MaxPosts}}

InitGaps ==
    /\ raw \in {<<d>> : d \in GapInputs}
    /\ df = DataFrame(raw)
    /\ pc = "gaps"
    /\ now = 0
    /\ result = <<>>
    /\ runs = 0
    /\ previous = <<>>

SpecGaps == InitGaps /\ [][Step2PostingGaps]_vars

(***************************************************************************)
(* run_with_rotation, src/src/scraper.py: one Scraper per account name, in *)
(* list order.  The frame has a row per account name with what its         *)
(* Scraper.run will do; raw is all_leads.  Scraper.__init__ and            *)
(* Scraper.close only set fields and close what was opened, and return.    *)
(***************************************************************************)
MaxAccounts == 3
MaxLeads == 2

\* what scraper.run(account_name) does: raise, or return `found` leads
RunOutcomes ==
    {[raised |-> TRUE, found |-> 0]} \cup {[raised |-> FALSE, found |-> n] : n \in 0..MaxLeads}

\* the leads an account's run returns
LeadsOf(account, outcome) ==
    [k \in 1..outcome.found |-> [handle |-> k, account |-> account]]

InitRotation ==
    /\ raw = <<>>
    /\ \E n \in 0..MaxAccounts : \E outcomes \in [1..n -> RunOutcomes] :
          df = [i \in 1..n |-> [account |-> i, outcome |-> outcomes[i]]]
    /\ pc = "rotation"
    /\ now = 0
    /\ result = <<>>
    /\ runs = 0
    /\ previous = <<>>

\* if len(leads) > 0: there never is a lead to stop at
NeverBreaks(leads) == FALSE

\* if len(leads) > 0: ... break
Breaks(leads) == Len(leads) > 0

\* one turn of the loop: the next account name of the list gets its Scraper
\* and its run; leads end the loop and are returned, no lead or an exception
\* lets the loop go on
TryAccount ==
    /\ pc = "rotation"
    /\ \E i \in 1..Len(df) :
          /\ "started" \notin DOMAIN df[i]
          /\ \A h \in 1..(i - 1) : "started" \in DOMAIN df[h]
          /\ df' = [df EXCEPT ![i] = [started |-> TRUE] @@ df[i]]
          /\ LET leads == LeadsOf(df[i].account, df[i].outcome)
             IN  IF ~df[i].outcome.raised /\ Breaks(leads)
                 THEN /\ raw' = raw \o leads
                      /\ pc' = "returned"
                 ELSE UNCHANGED <<raw, pc>>
    /\ UNCHANGED <<now, result, runs, previous>>

\* the list is exhausted: return all_leads
ReturnLeads ==
    /\ pc = "rotation"
    /\ \A i \in 1..Len(df) : "started" \in DOMAIN df[i]
    /\ pc' = "returned"
    /\ UNCHANGED <<raw, df, now, result, runs, previous>>

SpecRotation == InitRotation /\ [][TryAccount \/ ReturnLeads]_vars

(***************************************************************************)
(* Scraper.run, src/src/scraper.py, followed by the analysis of what it    *)
(* returns (src/main.py).  The frame has a row per search query with the   *)
(* user cards its result pages show; raw is all_raw_leads.  A query whose  *)
(* page does not load or shows no result is a query without cards.         *)
(***************************************************************************)
MaxQueries == 2
MaxCards == 2

\* the accounts the searches can show
ScrapePool == {d \in RankPool : d.handle \in {"hot_1200", "weekly_project"}}

\* a user card: the profile it shows and whether _get_profile_details will
\* return its details, or a card _pre_filter_user finds no handle in
Cards ==
    {[profile |-> d, details |-> ok] : d \in ScrapePool, ok \in BOOLEAN}
    \cup {[details |-> FALSE]}

RECURSIVE Potential(_, _)
\* potential_profiles: the cards with a handle not in seen_handles, in the
\* order they are found
Potential(cards, potential_profiles) ==
    IF cards = <<>> THEN potential_profiles
    ELSE LET card == Head(cards)
             seen_handles ==
                 {potential_profiles[k].profile.handle : k \in 1..Len(potential_profiles)}
         IN  IF "profile" \in DOMAIN card /\ card.profile.handle \notin seen_handles
             THEN Potential(Tail(cards), Append(potential_profiles, card))
             ELSE Potential(Tail(cards), potential_profiles)

\* the deep scrape: a raw lead for every potential profile whose details
\* were returned
RawLeads(potential_profiles) ==
    LET detailed == SelectSeq(potential_profiles, LAMBDA card : card.details)
    IN  [k \in 1..Len(detailed) |-> detailed[k].profile]

InitScrape ==
    /\ raw = <<>>
    /\ \E cards \in [1..MaxQueries -> UNION {[1..n -> Cards] : n \in 0..MaxCards}] :
          df = [q \in 1..MaxQueries |-> [query |-> q, cards |-> cards[q]]]
    /\ pc = "scrape"
    /\ now = MaxTicks
    /\ result = <<>>
    /\ runs = 0
    /\ previous = <<>>

\* one turn of `for query in config.SEARCH_QUERIES`: seen_handles starts
\* empty, the cards of the query are collected and deep-scraped, the leads
\* are appended to all_raw_leads
ProcessQuery ==
    /\ pc = "scrape"
    /\ \E q \in 1..Len(df) :
          /\ "processed" \notin DOMAIN df[q]
          /\ \A h \in 1..(q - 1) : "processed" \in DOMAIN df[h]
          /\ raw' = raw \o RawLeads(Potential(df[q].cards, <<>>))
          /\ df' = [df EXCEPT ![q] = [processed |-> TRUE] @@ df[q]]
    /\ UNCHANGED <<pc, now, result, runs, previous>>

\* return all_raw_leads, and main: no analysis without raw leads, else
\* Analyzer(raw_leads)
StartAnalysis ==
    /\ pc = "scrape"
    /\ \A q \in 1..Len(df) : "processed" \in DOMAIN df[q]
    /\ IF raw = <<>>
       THEN pc' = "no_leads" /\ df' = <<>>
       ELSE pc' = "start" /\ df' = DataFrame(raw)
    /\ UNCHANGED <<raw, now, result, runs, previous>>

SpecScrape == InitScrape /\ [][ProcessQuery \/ StartAnalysis \/ NextScore]_vars
(***************************************************************************)
(* Properties.                                                             *)
(***************************************************************************)
HasColumn(row, column) == column \in DOMAIN row

\* the rows of self.df that _calculate_smm_score has scored
ScoredRows == {i \in 1..Len(df) : HasColumn(df[i], "smm_need_score")}

GradeLabels == {SCORE_GRADES[k].grade : k \in 1..Len(SCORE_GRADES)}

\* C1: every scored profile has an integer smm_need_score with
\* 0 <= smm_need_score <= 100 and a score_grade among the configured labels.
C1_ScoreBoundedAndGraded ==
    \A i \in ScoredRows :
        /\ df[i].smm_need_score \in 0..100
        /\ df[i].score_grade \in GradeLabels

\* a scored profile whose dimensions add up to more than 100 and is reported 100
C1_ClampedWitness ==
    \E i \in ScoredRows :
        /\ CalculateSmmScore(df[i]).raw_score > 100
        /\ df[i].smm_need_score = 100

\* C2: the grade of a scored profile is the grade whose configured range
\* holds its reported smm_need_score (so equal scores get equal grades, and
\* every score in [70,100] is graded A).
C2_GradeOfReportedScore ==
    \A i \in ScoredRows :
        df[i].score_grade = AssignGrade(df[i].smm_need_score)

\* C3: every row run_analysis returns has score_grade A or B.
C3_OnlyAAndBExported ==
    pc = "done" => \A j \in 1..Len(result) : result[j].score_grade \in {"A", "B"}

\* the posts of a 'tweets' value whose timestamp parses
ParseableCount(tweets) ==
    IF tweets.t # "list" THEN 0
    ELSE Cardinality({i \in 1..Len(tweets.v) :
            /\ tweets.v[i].timestamp.t = "str"
            /\ tweets.v[i].timestamp.iso})

Metrics(row) ==
    [avg_gap_days |-> row.avg_gap_days, gap_variance |-> row.gap_variance,
     days_since_last_post |-> row.days_since_last_post]

\* C4: the metrics of a profile are the sentinel (9999, 0, 9999) if and only
\* if fewer than 2 of its posts have a timestamp that parses.
C4_SentinelIffFewParseable ==
    \A i \in 1..Len(df) :
        (HasColumn(df[i], "input") /\ HasColumn(df[i], "avg_gap_days")) =>
            (Metrics(df[i]) = SentinelMetrics
                <=> ParseableCount(TweetsOf(df[i])) < 2)

\* C5: when run_analysis has stopped, every well-formed profile of the batch
\* has been scored and, if its score qualifies, is in what was returned:
\* a profile with an unexpected field shape never takes the others with it.
C5_MalformedProfileIsIsolated ==
    pc \in {"done", "aborted"} =>
        \A i \in 1..Len(raw) :
            raw[i].shape = "ok" =>
                /\ i \in ScoredRows
                /\ df[i].smm_need_score >= MIN_QUALIFYING_SCORE =>
                       \E j \in 1..Len(result) : result[j].input = raw[i]

\* C6: a second run of the pipeline on the same raw_data_list and
\* configuration returns what the first run returned.
C6_RerunIdentical ==
    (pc = "done" /\ runs = 2) => result = previous

\* C7: the test profile whose posts are 2, 5, 10, 12 and 18 days old is
\* labelled erratic_active.
C7_ScenarioACadence ==
    \A i \in 1..Len(df) :
        (/\ HasColumn(df[i], "input") /\ df[i].input = TestFounder
         /\ HasColumn(df[i], "posting_pattern")
         /\ df[i].days_since_last_post = 2)
            => df[i].posting_pattern = "erratic_active"

\* C8: the test profile test_founder_1, its newest post 2 days old, is
\* classified Founder, has a tier-1 struggle keyword, is graded A and is in
\* the output.
C8_ScenarioAOutcome ==
    pc = "done" =>
        \A i \in ScoredRows :
            (df[i].input = TestFounder /\ df[i].days_since_last_post = 2) =>
                /\ df[i].account_type = "Founder"
                /\ df[i].tier1_struggle_keywords # {}
                /\ df[i].score_grade = "A"
                /\ \E j \in 1..Len(result) : result[j].input = TestFounder

\* C9: the test profile test_project_1, its posts 7, 14 and 21 days old, is
\* labelled sparse_consistent, scores between 50 and 69 and is graded B.
C9_TestCase2IsBGrade ==
    \A i \in ScoredRows :
        (df[i].input = TestProject /\ df[i].days_since_last_post = 7) =>
            /\ df[i].posting_pattern = "sparse_consistent"
            /\ df[i].smm_need_score \in 50..69
            /\ df[i].score_grade = "B"

\* C10: whenever days_since_last_post > 30 the posting pattern is dormant,
\* whatever avg_gap_days and gap_variance are, and the pattern contributes 0
\* points under the Founder and under the Project tables.
C10_StaleIsDormant ==
    \A i \in 1..Len(df) :
        (HasColumn(df[i], "posting_pattern") /\ df[i].days_since_last_post > 30) =>
            /\ df[i].posting_pattern = "dormant"
            /\ \A t \in {"Founder", "Project"} :
                  PatternScore(t, df[i].posting_pattern) = 0

\* a profile silent for more than 30 days whose gaps are those of a daily poster
C10_StaleDailyWitness ==
    \E i \in 1..Len(df) :
        /\ HasColumn(df[i], "posting_pattern")
        /\ df[i].days_since_last_post > 30
        /\ df[i].days_since_last_post # SENTINEL
        /\ QLe(df[i].avg_gap_days, 2)
        /\ QLe(df[i].gap_variance, 1)

\* rule k of the ordered decision list of the posting patterns
RuleHolds(k, avg, var, days) ==
    CASE k = 1 -> days > 30
      [] k = 2 -> avg[1] <= 2 * avg[2] /\ var[1] <= var[2]
      [] k = 3 -> /\ var[1] >= 4 * var[2]
                  /\ 2 * avg[2] <= avg[1] /\ avg[1] <= 7 * avg[2]
                  /\ days <= 7
      [] k = 4 -> /\ var[1] <= 3 * var[2]
                  /\ 7 * avg[2] <= avg[1] /\ avg[1] <= 14 * avg[2]
                  /\ days <= 14
      [] k = 5 -> days <= 7 /\ avg[1] > 14 * avg[2] /\ var[1] > 10 * var[2]

RuleLabel ==
    <<"dormant", "daily_poster", "erratic_active", "sparse_consistent", "comeback_kid">>

FirstRuleLabel(avg, var, days) ==
    LET matching == {k \in 1..5 : RuleHolds(k, avg, var, days)}
    IN  IF matching = {} THEN "dormant"
        ELSE RuleLabel[CHOOSE k \in matching : \A h \in matching : k <= h]

\* C11: the posting pattern of every triple (avg_gap_days, gap_variance,
\* days_since_last_post) is the label of the first rule of the ordered list
\* that matches it, and dormant when none matches.
C11_FirstMatchingRule ==
    \A i \in 1..Len(df) :
        HasColumn(df[i], "posting_pattern") =>
            df[i].posting_pattern =
                FirstRuleLabel(df[i].avg_gap_days, df[i].gap_variance,
                               df[i].days_since_last_post)

\* erratic_active at the edge of its rule: variance 4, average 2, 7 days
C11_ErraticEdgeWitness ==
    \E i \in 1..Len(df) :
        /\ HasColumn(df[i], "posting_pattern")
        /\ df[i].posting_pattern = "erratic_active"
        /\ df[i].gap_variance = <<8, 2>>
        /\ df[i].avg_gap_days = <<4, 2>>
        /\ df[i].days_since_last_post = 7

\* keyword k stands in text s at position i as a whole word or phrase, in any
\* letter case
WholeWordAt(k, s, i) ==
    /\ i + Len(k) - 1 <= Len(s)
    /\ Lower(SubSeq(s, i, i + Len(k) - 1)) = Lower(k)
    /\ i = 1 \/ ~IsWordChar(s[i - 1])
    /\ i + Len(k) > Len(s) \/ ~IsWordChar(s[i + Len(k)])

KeywordPresent(keywords, s) ==
    \E k \in 1..Len(keywords) : \E i \in 1..Len(s) : WholeWordAt(keywords[k], s, i)

\* one of the phrases is part of the lower-cased text
PhrasePresent(phrases, s) ==
    \E p \in 1..Len(phrases) : \E i \in 1..Len(s) :
        /\ i + Len(phrases[p]) - 1 <= Len(s)
        /\ SubSeq(Lower(s), i, i + Len(phrases[p]) - 1) = phrases[p]

\* the first matching step of the classification order
FirstClassifyingStep(bio) ==
    IF bio.t # "str" THEN "Unknown"
    ELSE IF bio.v = <<>> THEN "Unknown"
    ELSE IF KeywordPresent(FOUNDER_BIO_KEYWORDS, bio.v) THEN "Founder"
    ELSE IF KeywordPresent(PROJECT_BIO_KEYWORDS, bio.v) THEN "Project"
    ELSE IF PhrasePresent(FirstPersonPhrases, bio.v) THEN "Founder"
    ELSE IF PhrasePresent(PluralPhrases, bio.v) THEN "Project"
    ELSE "Unknown"

\* C12: the account type of every biography is the result of the first
\* matching step of: not a text or empty -> Unknown; founder keyword ->
\* Founder; project keyword -> Project; first-person phrase -> Founder; plural
\* phrase -> Project; otherwise Unknown.  Classification never raises: every
\* profile gets an account type.
C12_ClassificationOrder ==
    \A i \in 1..Len(df) :
        /\ (pc # "start" /\ HasColumn(df[i], "input")) => HasColumn(df[i], "account_type")
        /\ (HasColumn(df[i], "input") /\ HasColumn(df[i], "account_type")) =>
               df[i].account_type = FirstClassifyingStep(Bio(df[i]))

\* a biography with a project keyword, a founder keyword after it and a plural
\* phrase, classified Founder
C12_BothKeywordsWitness ==
    \E i \in 1..Len(df) :
        /\ HasColumn(df[i], "input") /\ HasColumn(df[i], "account_type")
        /\ df[i].input.bio = "by_words"
        /\ df[i].input.words = <<5, 2, 1>>
        /\ df[i].account_type = "Founder"

\* the rows a matcher has been applied to
MatchedRows == {i \in 1..Len(df) : HasColumn(df[i], "matches")}

\* C13: a matcher reports keyword k for text t exactly when k stands in t as
\* a whole word or phrase, in any letter case, and reports it lower-cased.
C13_WholeWordAnyCase ==
    \A i \in MatchedRows :
        LET keywords == KeywordList(df[i].keywords)
            text     == MatcherTexts[df[i].text]
        IN  \A k \in 1..Len(keywords) :
                /\ keywords[k] = Lower(keywords[k])
                /\ keywords[k] \in df[i].matches
                      <=> \E p \in 1..Len(text) : WholeWordAt(keywords[k], text, p)
                /\ df[i].found
                      <=> \E h \in 1..Len(keywords) : \E p \in 1..Len(text) :
                             WholeWordAt(keywords[h], text, p)

\* C14: the matcher built from the empty keyword list finds nothing in any
\* text.
C14_EmptyListNeverMatches ==
    \A i \in MatchedRows :
        KeywordList(df[i].keywords) = <<>> =>
            /\ ~df[i].found
            /\ df[i].matches = {}

\* the rows _find_struggle_keywords has been applied to
ScannedRows == {i \in 1..Len(df) : HasColumn(df[i], "struggle_tweets")}

\* the texts of the first 10 posts of a row, in source order
ScannedTexts(row) ==
    LET posts == TweetsOf(row).v
        n     == IF Len(posts) < 10 THEN Len(posts) ELSE 10
    IN  [i \in 1..n |-> posts[i].text.v]

\* text, cut to 100 characters and '...' when it is longer
CutText(text) ==
    IF Len(text) <= 100 THEN text
    ELSE [i \in 1..103 |-> IF i <= 100 THEN text[i] ELSE "."]

\* the keywords of a list that stand in the text as whole words or phrases
KeywordsIn(keywords, text) ==
    {keywords[k] : k \in {h \in 1..Len(keywords) :
                            \E p \in 1..Len(text) : WholeWordAt(keywords[h], text, p)}}

SamplesOf(row, text, tier) ==
    {j \in 1..Len(row.struggle_tweets) :
        row.struggle_tweets[j] = [text |-> CutText(text), tier |-> tier]}

\* C15: a post matched by the tier-1 matcher gives one sample tagged tier 1
\* (unless the three samples kept were collected before it) and never a tier-2
\* sample, and its tier-2 matches are in the tier-2 keyword set.
C15_Tier1PostSampledOnce ==
    \A i \in ScannedRows :
        LET texts == ScannedTexts(df[i])
        IN  \A p \in 1..Len(texts) :
                KeywordsIn(TIER1_STRUGGLE_KEYWORDS, texts[p]) # {} =>
                    LET same == {q \in 1..Len(texts) : texts[q] = texts[p]}
                        kept == SamplesOf(df[i], texts[p], 1)
                    IN  /\ SamplesOf(df[i], texts[p], 2) = {}
                        /\ Cardinality(kept) <= Cardinality(same)
                        /\ Len(df[i].struggle_tweets) < 3 =>
                               Cardinality(kept) = Cardinality(same)
                        /\ KeywordsIn(TIER2_STRUGGLE_KEYWORDS, texts[p])
                               \subseteq df[i].tier2_struggle_keywords

\* a single post with a tier-1 and a tier-2 keyword: one sample, tier 1, and
\* the tier-2 keyword recorded
C15_BothTiersWitness ==
    \E i \in ScannedRows :
        /\ df[i].input.texts = "by_kind"
        /\ df[i].input.kinds = <<"both">>
        /\ df[i].struggle_tweets = <<[text |-> KindText("both"), tier |-> 1]>>
        /\ df[i].tier2_struggle_keywords # {}

\* the posts among texts that yield a sample: those with a struggle keyword
SamplePosts(texts) ==
    {p \in 1..Len(texts) :
        \/ KeywordsIn(TIER1_STRUGGLE_KEYWORDS, texts[p]) # {}
        \/ KeywordsIn(TIER2_STRUGGLE_KEYWORDS, texts[p]) # {}}

\* C16: the struggle findings of a profile are those of its first 10 posts
\* in source order, and struggle_tweets holds the first three samples
\* collected in scan order, at most 3, each text cut to 100 characters and
\* '...' when the post text is longer than 100 characters, unchanged otherwise.
C16_FirstTenPostsThreeSamples ==
    \A i \in ScannedRows :
        LET texts   == ScannedTexts(df[i])
            yield   == SamplePosts(texts)
            rank(p) == Cardinality({q \in yield : q < p}) + 1
            kept    == {p \in yield : rank(p) <= 3}
        IN  /\ df[i].tier1_struggle_keywords =
                   UNION {KeywordsIn(TIER1_STRUGGLE_KEYWORDS, texts[p]) : p \in 1..Len(texts)}
            /\ df[i].tier2_struggle_keywords =
                   UNION {KeywordsIn(TIER2_STRUGGLE_KEYWORDS, texts[p]) : p \in 1..Len(texts)}
            /\ Len(df[i].struggle_tweets) = Cardinality(kept)
            /\ Len(df[i].struggle_tweets) <= 3
            /\ \A p \in kept :
                   df[i].struggle_tweets[rank(p)] =
                       [text |-> CutText(texts[p]),
                        tier |-> IF KeywordsIn(TIER1_STRUGGLE_KEYWORDS, texts[p]) # {}
                                 THEN 1 ELSE 2]

\* 11 posts: a long one, one of exactly 100 characters and a third one yield
\* the three samples kept, the 10th post yields a keyword and no sample, the
\* 11th nothing
C16_EleventhPostWitness ==
    \E i \in ScannedRows :
        /\ df[i].input.texts = "by_kind"
        /\ Len(df[i].input.kinds) = 11
        /\ SubSeq(df[i].input.kinds, 1, 3) = <<"long1", "exact100", "t2b">>
        /\ Len(df[i].struggle_tweets) = 3
        /\ Len(df[i].struggle_tweets[1].text) = 103
        /\ df[i].struggle_tweets[2].text = KindText("exact100")
        /\ KeywordsIn(TIER1_STRUGGLE_KEYWORDS, KindText("t1b"))
               \subseteq df[i].tier1_struggle_keywords
        /\ KeywordsIn(TIER1_STRUGGLE_KEYWORDS, KindText("t1c"))
               \cap df[i].tier1_struggle_keywords = {}
        /\ KeywordsIn(TIER1_STRUGGLE_KEYWORDS, KindText("t1c")) # {}

\* min(n1 * tier1_per_keyword, max_points), plus min(n2 * tier2_per_keyword,
\* what is left of max_points) when something is left, clamped to max_points
CappedStruggle(signals, n1, n2) ==
    LET t1 == Min(n1 * signals.tier1_per_keyword, signals.max_points)
        t2 == IF t1 < signals.max_points
              THEN Min(n2 * signals.tier2_per_keyword, signals.max_points - t1)
              ELSE 0
    IN  Min(t1 + t2, signals.max_points)

\* C17: under every configuration of the weights and for every pair of
\* keyword counts the struggle contribution is the tier-1 amount capped at
\* max_points plus the tier-2 amount capped at what is left of max_points.
C17_StruggleCapFromConfiguration ==
    \A i \in 1..Len(df) :
        HasColumn(df[i], "struggle_score") =>
            df[i].struggle_score =
                CappedStruggle(df[i].signals, df[i].tier1_count, df[i].tier2_count)

\* the ranges of a table that contain the count, both bounds included
RangesHolding(ranges, count) ==
    {k \in 1..Len(ranges) : ranges[k].min <= count /\ count <= ranges[k].max}

\* the first declared range of a table that contains the count, 0 if none
FirstHolding(ranges, count) ==
    LET holding == RangesHolding(ranges, count)
    IN  IF holding = {} THEN 0
        ELSE CHOOSE k \in holding : \A h \in holding : k <= h

FollowerReasons(row) ==
    {j \in 1..Len(row.score_reasons) : row.score_reasons[j].kind = "followers"}

\* C18: the follower points of a scored profile are those of the first
\* declared range of its persona's table that contains follower_count, bounds
\* included, and 0 when none does; its follower_tier is the label of the first
\* FOLLOWER_TIERS range that contains the count, and N/A when none does.
C18_FirstRangeInclusive ==
    \A i \in ScoredRows :
        LET count  == FollowerCount(df[i]).v
            table  == IF df[i].account_type = "Founder"
                      THEN FOUNDER_SCORING.follower_tier
                      ELSE PROJECT_SCORING.follower_tier
            k      == FirstHolding(table, count)
            points == IF k = 0 THEN 0 ELSE table[k].points
            t      == FirstHolding(FOLLOWER_TIERS, count)
        IN  /\ FollowerTierScore(df[i].account_type, FollowerCount(df[i])) = points
            /\ \A j \in FollowerReasons(df[i]) : df[i].score_reasons[j].n = points
            /\ Cardinality(FollowerReasons(df[i])) = IF k = 0 THEN 0 ELSE 1
            /\ df[i].follower_tier = IF t = 0 THEN "N/A" ELSE FOLLOWER_TIERS[t].tier

\* a Project with 2000 followers: the upper bound of Tier 1, 20 points
C18_UpperBoundWitness ==
    \E i \in ScoredRows :
        /\ FollowerCount(df[i]).v = 2000
        /\ df[i].account_type = "Project"
        /\ df[i].follower_tier = "Tier 1"
        /\ \E j \in FollowerReasons(df[i]) : df[i].score_reasons[j].n = 20

\* how many rows of a frame are those of profile d and satisfy keep
CountRows(frame, d, keep(_)) ==
    Cardinality({j \in 1..Len(frame) : frame[j].input = d /\ keep(frame[j])})

\* C19: what run_analysis returns holds exactly the analysed profiles whose
\* smm_need_score is at least MIN_QUALIFYING_SCORE: no row below it, no
\* profile at or above it left out.
C19_ExactlyTheQualifying ==
    (pc = "done" /\ ScoredRows = 1..Len(df)) =>
        /\ \A j \in 1..Len(result) : result[j].smm_need_score >= MIN_QUALIFYING_SCORE
        /\ \A i \in 1..Len(df) :
               CountRows(result, df[i].input, LAMBDA row : TRUE)
                   = CountRows(df, df[i].input,
                               LAMBDA row : row.smm_need_score >= MIN_QUALIFYING_SCORE)
        /\ \A j \in 1..Len(result) : \E i \in 1..Len(df) :
               /\ df[i].input = result[j].input
               /\ df[i].smm_need_score = result[j].smm_need_score

\* three profiles analysed, one below the minimum: two rows returned
C19_OneLeftOutWitness ==
    /\ pc = "done"
    /\ Len(df) = 3
    /\ ScoredRows = 1..3
    /\ Len(result) = 2
    /\ df[2].smm_need_score < MIN_QUALIFYING_SCORE
    /\ result[1].input # result[2].input

\* C20: the rows run_analysis returns are sorted by smm_need_score
\* descending, ties by follower_count descending: of two adjacent rows the
\* earlier has the higher score, or the same score and at least as many
\* followers.
C20_SortedByScoreThenFollowers ==
    pc = "done" =>
        \A j \in 1..(Len(result) - 1) :
            \/ result[j].smm_need_score > result[j + 1].smm_need_score
            \/ /\ result[j].smm_need_score = result[j + 1].smm_need_score
               /\ FollowerCount(result[j]).v >= FollowerCount(result[j + 1]).v

\* a lower score handed over first, then two profiles with the same score,
\* the one with fewer followers first: returned with the more followers
\* first and the lower score last
C20_TieBrokenWitness ==
    /\ pc = "done"
    /\ Len(raw) = 3
    /\ raw[2].follower_count < raw[3].follower_count
    /\ Len(result) = 3
    /\ result[1].input = raw[3]
    /\ result[2].input = raw[2]
    /\ result[3].input = raw[1]
    /\ result[1].smm_need_score = result[2].smm_need_score
    /\ result[2].smm_need_score > result[3].smm_need_score


\* the dimensions of the score in the order _calculate_smm_score computes them;
\* the persona bonus is the founder identity or the recent launch
ReasonOrder ==
    <<"posting", "tier1_struggle", "tier2_struggle", "followers",
      "founder_identity", "recently_launched", "funded", "posted_last_3_days">>

\* the dimension added points to the score of the row
Triggered(row, kind) ==
    LET persona == row.account_type
        tier1   == Cardinality(row.tier1_struggle_keywords)
        tier2   == Cardinality(row.tier2_struggle_keywords)
        bio     == Lower(Str(Bio(row)))
        posts   == Lower(JoinTexts(TweetsOf(row).v))
    IN  CASE kind = "posting" -> PatternScore(persona, row.posting_pattern) > 0
          [] kind = "tier1_struggle" -> tier1 > 0
          [] kind = "tier2_struggle" ->
                StruggleScore(persona, tier1, tier2) > StruggleScore(persona, tier1, 0)
          [] kind = "followers" -> FollowerTierScore(persona, FollowerCount(row)) > 0
          [] kind = "founder_identity" ->
                persona = "Founder" /\ ContainsAny(bio, FounderIdentityWords)
          [] kind = "recently_launched" ->
                persona = "Project" /\ ContainsAny(posts, LaunchedWords)
          [] kind = "funded" -> ContainsAny(bio, FundedWords) \/ ContainsAny(posts, FundedWords)
          [] kind = "posted_last_3_days" -> row.days_since_last_post <= 3

\* the kinds of the reasons of a row, in the order they are listed
ReasonKinds(row) == [j \in 1..Len(row.score_reasons) |-> row.score_reasons[j].kind]

\* C21: score_reasons of a scored profile lists one reason per dimension that
\* added points, in computation order (posting pattern, tier-1 struggle,
\* tier-2 struggle, follower tier, persona bonus, funding bonus, recency
\* bonus), no other reason, and is 'No qualifying signals' when none did.
C21_ReasonsInComputationOrder ==
    \A i \in ScoredRows :
        LET triggered(kind) == Triggered(df[i], kind)
            expected == SelectSeq(ReasonOrder, triggered)
        IN  ReasonKinds(df[i]) =
                IF expected = <<>> THEN <<"no_qualifying_signals">> ELSE expected

\* a profile with seven reasons, one whose tier-2 keyword adds nothing after two
\* tier-1 keywords, and one without any signal
C21_SevenReasonsWitness ==
    \E i \in ScoredRows :
        /\ Len(df[i].score_reasons) = 7
        /\ ReasonKinds(df[i])[3] = "tier2_struggle"
        /\ ReasonKinds(df[i])[7] = "posted_last_3_days"

C21_Tier2SilentWitness ==
    \E i \in ScoredRows :
        /\ Cardinality(df[i].tier1_struggle_keywords) = 2
        /\ Cardinality(df[i].tier2_struggle_keywords) = 1
        /\ \A j \in 1..Len(df[i].score_reasons) :
              df[i].score_reasons[j].kind # "tier2_struggle"

C21_NoSignalWitness ==
    \E i \in ScoredRows : ReasonKinds(df[i]) = <<"no_qualifying_signals">>


\* the profile of a row has no post: an empty list, None, or no 'tweets' key
HasNoPosts(row) ==
    \/ TweetsOf(row).t \in {"none", "nan", "absent"}
    \/ TweetsOf(row).t = "list" /\ TweetsOf(row).v = <<>>

\* C22: when run_analysis has stopped, a profile with an empty or absent post
\* collection has the sentinel metrics (9999, 0, 9999), posting_pattern
\* dormant, no tier-1 keyword, no tier-2 keyword and no sample, and the
\* account_type its bio alone gives.
C22_NoPostsIsDormantAndEmpty ==
    pc \in {"done", "aborted"} =>
        \A i \in 1..Len(df) :
            HasNoPosts(df[i]) =>
                /\ HasColumn(df[i], "account_type")
                /\ df[i].account_type = ClassifyAccountType(Bio(df[i]))
                /\ HasColumn(df[i], "posting_pattern")
                /\ Metrics(df[i]) = SentinelMetrics
                /\ df[i].posting_pattern = "dormant"
                /\ HasColumn(df[i], "struggle_tweets")
                /\ df[i].tier1_struggle_keywords = {}
                /\ df[i].tier2_struggle_keywords = {}
                /\ df[i].struggle_tweets = <<>>

\* the rows of a frame that are those of profile d
RowsOf(frame, d) == {j \in 1..Len(frame) : frame[j].input = d}

\* C23: the test profile test_daily (a Founder with 3000 followers posting once
\* a day for 15 consecutive days, no struggle or funding language) is
\* labelled daily_poster, gets 0 points and no reason for its posting
\* pattern, scores below MIN_QUALIFYING_SCORE and is not in what
\* run_analysis returns.
C23_ScenarioBDailyPosterExcluded ==
    /\ \A i \in RowsOf(df, TestDaily) :
          /\ HasColumn(df[i], "account_type") => df[i].account_type = "Founder"
          /\ HasColumn(df[i], "posting_pattern") => df[i].posting_pattern = "daily_poster"
          /\ i \in ScoredRows =>
                /\ df[i].smm_need_score < MIN_QUALIFYING_SCORE
                /\ \A j \in 1..Len(df[i].score_reasons) :
                      df[i].score_reasons[j].kind # "posting"
    /\ pc = "done" => RowsOf(result, TestDaily) = {}

\* test_daily analysed to the end: 15 for its followers, 10 for the founder
\* identity, 5 for its recent post, and nothing returned
C23_DailyPosterScoredWitness ==
    /\ pc = "done"
    /\ raw = <<TestDaily>>
    /\ QLe(df[1].avg_gap_days, 1) /\ QGe(df[1].avg_gap_days, 1)
    /\ df[1].posting_pattern = "daily_poster"
    /\ df[1].smm_need_score = 30
    /\ result = <<>>

\* the rows of self.df that have the three metrics of step 2
MeasuredRows == {i \in 1..Len(df) : HasColumn(df[i], "days_since_last_post")}

\* C24: whatever the timestamps of the posts, earlier or later than the clock,
\* days_since_last_post is the sentinel 9999 or an integer >= 0, and
\* avg_gap_days and gap_variance are >= 0.
C24_MetricsNeverNegative ==
    \A i \in MeasuredRows :
        /\ df[i].days_since_last_post >= 0
        /\ QGe(df[i].avg_gap_days, 0)
        /\ QGe(df[i].gap_variance, 0)

\* the reasons of a row that are of the kind
ReasonsOfKind(row, kind) ==
    {j \in 1..Len(row.score_reasons) : row.score_reasons[j].kind = kind}

\* C25: the pronoun heuristics of the classifier and the bonus checks of the
\* scorer trigger only on whole words or phrases: a biography without founder
\* or project keyword is classified Founder only if a first-person phrase
\* stands in it as whole words, Project only if a plural phrase does, and a
\* founder-identity, recently-launched or funding bonus is given only if one
\* of its words stands as a whole word in the biography or the posts.
C25_HeuristicsMatchWholeWords ==
    /\ \A i \in 1..Len(df) :
          (/\ HasColumn(df[i], "input") /\ HasColumn(df[i], "account_type")
           /\ Bio(df[i]).t = "str"
           /\ ~KeywordPresent(FOUNDER_BIO_KEYWORDS, Bio(df[i]).v)
           /\ ~KeywordPresent(PROJECT_BIO_KEYWORDS, Bio(df[i]).v)) =>
              /\ df[i].account_type = "Founder" =>
                    KeywordPresent(FirstPersonPhrases, Bio(df[i]).v)
              /\ df[i].account_type = "Project" =>
                    KeywordPresent(PluralPhrases, Bio(df[i]).v)
    /\ \A i \in ScoredRows :
          LET bio   == Str(Bio(df[i]))
              posts == JoinTexts(TweetsOf(df[i]).v)
          IN  /\ ReasonsOfKind(df[i], "founder_identity") # {} =>
                    KeywordPresent(FounderIdentityWords, bio)
              /\ ReasonsOfKind(df[i], "recently_launched") # {} =>
                    KeywordPresent(LaunchedWords, posts)
              /\ ReasonsOfKind(df[i], "funded") # {} =>
                    KeywordPresent(FundedWords, bio) \/ KeywordPresent(FundedWords, posts)

\* C26: accounts whose posting pattern is daily_poster or dormant are skipped:
\* no row of what run_analysis returns has one of these patterns.
C26_DailyAndDormantSkipped ==
    pc = "done" =>
        \A j \in 1..Len(result) :
            result[j].posting_pattern \notin {"daily_poster", "dormant"}

\* the accounts of the rotation whose Scraper was started
Started == {i \in 1..Len(df) : HasColumn(df[i], "started")}

\* the accounts whose run returns at least one lead
Yielding == {i \in 1..Len(df) : ~df[i].outcome.raised /\ df[i].outcome.found > 0}

\* C27: run_with_rotation tries the accounts in list order and stops at the
\* first whose run returns a lead: the accounts started are always the first
\* ones of the list, none after an account that returned a lead; what is
\* returned is the leads of the first account that has any, with it the last
\* one started, or the empty list, with every account started, when none has.
C27_RotationStopsAtFirstLeads ==
    (pc \in {"rotation", "returned"} /\ \A i \in 1..Len(df) : HasColumn(df[i], "outcome")) =>
        /\ \A i \in Started : \A h \in 1..(i - 1) : h \in Started /\ h \notin Yielding
        /\ pc = "rotation" => raw = <<>>
        /\ pc = "returned" =>
              IF Yielding = {}
              THEN raw = <<>> /\ Started = 1..Len(df)
              ELSE LET first == CHOOSE i \in Yielding : \A h \in Yielding : i <= h
                   IN  /\ raw = LeadsOf(first, df[first].outcome)
                       /\ Started = 1..first

\* the first account raises, the second returns no lead, the third returns
\* leads, which are what is returned
C27_ThirdAccountWitness ==
    /\ pc = "returned"
    /\ Len(df) = 3
    /\ HasColumn(df[1], "outcome") /\ df[1].outcome.raised
    /\ ~df[2].outcome.raised /\ df[2].outcome.found = 0
    /\ Len(raw) = 2 /\ raw[1].account = 3

\* the rules 2 to 5 of the decision list (daily_poster, erratic_active,
\* sparse_consistent, comeback_kid) whose condition the metrics of a row meet
RulesHolding(row) ==
    {k \in 2..5 : RuleHolds(k, row.avg_gap_days, row.gap_variance,
                            row.days_since_last_post)}

\* C28: for metrics with days_since_last_post <= 30, at most one of the
\* conditions of the rules 2 to 5 holds, and the label returned is that of
\* every rule that holds: it does not depend on the order of the four rules.
C28_RulesMutuallyExclusive ==
    \A i \in 1..Len(df) :
        (HasColumn(df[i], "posting_pattern") /\ df[i].days_since_last_post <= 30) =>
            /\ Cardinality(RulesHolding(df[i])) <= 1
            /\ \A k \in RulesHolding(df[i]) : df[i].posting_pattern = RuleLabel[k]
            /\ RulesHolding(df[i]) = {} => df[i].posting_pattern = "dormant"

\* where two rules meet: average 7 and variance 0 within 7 days is
\* sparse_consistent alone
C28_SharedEdgeWitness ==
    \E i \in 1..Len(df) :
        /\ HasColumn(df[i], "posting_pattern")
        /\ df[i].avg_gap_days = <<14, 2>>
        /\ df[i].gap_variance = <<0, 2>>
        /\ df[i].days_since_last_post = 7
        /\ RulesHolding(df[i]) = {4}
        /\ df[i].posting_pattern = "sparse_consistent"

\* the scored rows of accounts classified Unknown
UnknownRows == {i \in ScoredRows : df[i].account_type = "Unknown"}

\* what _calculate_smm_score returns for the same data on a Project account
AsProject(row) == CalculateSmmScore([row EXCEPT !.account_type = "Project"])

\* the recently-launched bonus the posts of a row earn a Project account
LaunchBonus(row) ==
    IF ContainsAny(Lower(JoinTexts(TweetsOf(row).v)), LaunchedWords)
    THEN PROJECT_SCORING.bonus.recently_launched
    ELSE 0

\* C29 as stated: the score of an account classified Unknown equals the score
\* of a Project account with the same data minus any recently-launched bonus.
C29_UnknownScoreIsProjectMinusLaunch ==
    \A i \in UnknownRows :
        df[i].smm_need_score = AsProject(df[i]).smm_need_score - LaunchBonus(df[i])

\* C29 amended: an account classified Unknown gets the follower points of the
\* Project ranges and neither a founder-identity nor a recently-launched
\* reason, and its score is, capped at 100, the sum of the dimensions of a
\* Project account with the same data minus any recently-launched bonus.
C29_UnknownSumIsProjectMinusLaunch ==
    \A i \in UnknownRows :
        LET k == FirstHolding(PROJECT_SCORING.follower_tier, FollowerCount(df[i]).v)
        IN  /\ df[i].smm_need_score =
                  Min(AsProject(df[i]).raw_score - LaunchBonus(df[i]), 100)
            /\ ReasonsOfKind(df[i], "founder_identity") = {}
            /\ ReasonsOfKind(df[i], "recently_launched") = {}
            /\ \A j \in ReasonsOfKind(df[i], "followers") :
                  k # 0 /\ df[i].score_reasons[j].n = PROJECT_SCORING.follower_tier[k].points

\* an Unknown account at 95 whose posts tell of a launch: as a Project its
\* dimensions add up to 105, reported 100
C29_CappedProjectWitness ==
    \E i \in UnknownRows :
        /\ df[i].smm_need_score = 95
        /\ AsProject(df[i]).raw_score = 105
        /\ LaunchBonus(df[i]) = 10

\* the handles of a list of raw leads, or of the rows returned for them, are
\* pairwise different
DistinctHandles(handles) ==
    \A i, j \in 1..Len(handles) : i # j => handles[i] # handles[j]

\* C30: handle is a unique key: what Scraper.run collects over the search
\* queries holds each handle at most once, and what run_analysis returns
\* for it never holds two rows of the same handle.
C30_HandleIsUnique ==
    /\ DistinctHandles([i \in 1..Len(raw) |-> raw[i].handle])
    /\ pc = "done" =>
          DistinctHandles([j \in 1..Len(result) |-> result[j].input.handle])
=============================================================================
